---------------------------- MODULE Spec2Model ----------------------------
(***************************************************************************)
(* Model of the e-commerce back office of src/db.py and src/app.py:        *)
(* the DataValidator field checks, the ECommerceDB operations              *)
(* add_customer, create_order and update_order_status, its read            *)
(* operations, and the pages that call them (the registration form, the    *)
(* order page with its order in progress, the update form of the orders    *)
(* page), run against a relational store with transactions (psycopg2       *)
(* connections).                                                           *)
(*                                                                         *)
(* Representation.                                                         *)
(*   - A Python str is a tuple of one-character strings.                   *)
(*   - A monetary amount is a tagged value: "num" (v = the amount in       *)
(*     cents), "nan" (the float NaN) or "text" (a str float() cannot       *)
(*     parse).  Arithmetic on "num" is exact; binary rounding of floats    *)
(*     is not modelled.                                                    *)
(*   - A quantity is "int" (v = the integer) or "text" (a str int()        *)
(*     cannot parse).                                                      *)
(*   - A ship date is "none" (None), "dt" (a datetime, t = its instant)    *)
(*     or "text" (a str datetime.fromisoformat cannot parse).              *)
(*   - The result of a call has a kind: "return" for a returned pair       *)
(*     (ok, msg), "raise" for an exception that leaves the call, and       *)
(*     "list", "dict" or "None" for a returned value of that type.         *)
(***************************************************************************)
EXTENDS Integers, Sequences, FiniteSets, TLC

(***************************************************************************)
(* Bounds of the model.                                                    *)
(***************************************************************************)
MaxOrders == 1
MaxCustomers == 2
MaxItems == 2
MaxTime == 1
MaxReportOrders == 3
MaxReportTime == 3
MaxLimit == 2
MaxNameInputLen == 3
MaxPostalInputLen == 7
MaxClicks == 4

(***************************************************************************)
(* Program constants.                                                      *)
(***************************************************************************)
MaxAmount == 99999999
MaxQuantity == 1000
MinNameLen == 2
MaxNameLen == 50
MinPostalLen == 5
MaxPostalLen == 6

(***************************************************************************)
(* Results of calls.                                                       *)
(***************************************************************************)
Ret(ok, msg) == [kind |-> "return", ok |-> ok, msg |-> msg]

Raise(exc) == [kind |-> "raise", ok |-> FALSE, msg |-> exc]

Valid == Ret(TRUE, "Valid")

(***************************************************************************)
(* The names db.py binds at module level.  The module imports os,          *)
(* streamlit (as st), psycopg2 and psycopg2.sql; it never imports re, so   *)
(* every evaluation of re.match or re.sub in it raises NameError.          *)
(***************************************************************************)
re_imported == FALSE

(***************************************************************************)
(* Characters and strings.                                                 *)
(***************************************************************************)
Digits == {"0", "1", "2", "3", "4", "5", "6", "7", "8", "9"}

Letters ==
    {"a", "b", "c", "d", "e", "f", "g", "h", "i", "j", "k", "l", "m",
     "n", "o", "p", "q", "r", "s", "t", "u", "v", "w", "x", "y", "z",
     "A", "B", "C", "D", "E", "F", "G", "H", "I", "J", "K", "L", "M",
     "N", "O", "P", "Q", "R", "S", "T", "U", "V", "W", "X", "Y", "Z"}

\* Two characters of the Khmer block U+1780..U+17FF.
Khmer == {"U+1780", "U+17FF"}

Whitespace == {" "}

AllIn(s, class) == \A i \in 1..Len(s) : s[i] \in class

RECURSIVE lstrip(_)
lstrip(s) ==
    IF s # <<>> /\ Head(s) \in Whitespace THEN lstrip(Tail(s)) ELSE s

RECURSIVE rstrip(_)
rstrip(s) ==
    IF s # <<>> /\ s[Len(s)] \in Whitespace
    THEN rstrip(SubSeq(s, 1, Len(s) - 1))
    ELSE s

strip(s) == rstrip(lstrip(s))

Rep(c, n) == [i \in 1..n |-> c]

(***************************************************************************)
(* The regular expressions of DataValidator, as predicates on strings.     *)
(***************************************************************************)
\* ^[a-zA-Z0-9._%+-]+@[a-zA-Z0-9.-]+\.[a-zA-Z]{2,}$
email_pattern(s) ==
    \E i \in 2..Len(s) : \E j \in (i + 2)..Len(s) :
        /\ s[i] = "@"
        /\ s[j] = "."
        /\ AllIn(SubSeq(s, 1, i - 1), Letters \cup Digits \cup {".", "_", "%", "+", "-"})
        /\ AllIn(SubSeq(s, i + 1, j - 1), Letters \cup Digits \cup {".", "-"})
        /\ Len(s) - j >= 2
        /\ AllIn(SubSeq(s, j + 1, Len(s)), Letters)

\* re.sub(r'[\s\-()]', '', phone)
clean_phone(s) == SelectSeq(s, LAMBDA c : c \notin Whitespace \cup {"-", "(", ")"})

\* (1[0-9]|6[1-9]|7[0-9]|8[1-9]|9[0-9])\d{6,7}$ from position k on
phone_tail(s, k) ==
    /\ Len(s) - k + 1 \in {8, 9}
    /\ \/ s[k] \in {"1", "7", "9"} /\ s[k + 1] \in Digits
       \/ s[k] \in {"6", "8"} /\ s[k + 1] \in Digits \ {"0"}
    /\ AllIn(SubSeq(s, k + 2, Len(s)), Digits)

\* pattern1, pattern2 and pattern3 of validate_phone
phone_pattern(s) ==
    \/ Len(s) >= 1 /\ s[1] = "0" /\ phone_tail(s, 2)
    \/ Len(s) >= 4 /\ SubSeq(s, 1, 4) = <<"+", "8", "5", "5">> /\ phone_tail(s, 5)
    \/ Len(s) >= 3 /\ SubSeq(s, 1, 3) = <<"8", "5", "5">> /\ phone_tail(s, 4)

\* ^[\u1780-\u17FFa-zA-Z\s\-\']+$
name_pattern(s) ==
    Len(s) >= 1 /\ AllIn(s, Khmer \cup Letters \cup Whitespace \cup {"-", "'"})

\* ^\d{5,6}$
postal_pattern(s) == Len(s) \in {5, 6} /\ AllIn(s, Digits)

(***************************************************************************)
(* DataValidator.                                                          *)
(***************************************************************************)
validate_email(email) ==
    IF ~re_imported THEN Raise("NameError")
    ELSE IF ~email_pattern(email) THEN Ret(FALSE, "Invalid email format")
    ELSE Valid

validate_phone(phone) ==
    IF ~re_imported THEN Raise("NameError")
    ELSE IF phone_pattern(clean_phone(phone)) THEN Valid
    ELSE Ret(FALSE, "Invalid Cambodian phone number. Format: 0XX XXX XXX or +855 XX XXX XXX")

validate_name(name, field_name) ==
    IF name = <<>> \/ Len(strip(name)) < MinNameLen
    THEN Ret(FALSE, field_name \o " must be at least 2 characters")
    ELSE IF Len(name) > MaxNameLen
    THEN Ret(FALSE, field_name \o " cannot exceed 50 characters")
    ELSE IF ~re_imported THEN Raise("NameError")
    ELSE IF ~name_pattern(name)
    THEN Ret(FALSE, field_name \o " can only contain letters (Khmer or English), spaces, hyphens, and apostrophes")
    ELSE Valid

validate_postal_code(postal_code) ==
    IF postal_code = <<>> \/ Len(strip(postal_code)) < MinPostalLen
    THEN Ret(FALSE, "Postal code must be at least 5 characters")
    ELSE IF Len(postal_code) > MaxPostalLen
    THEN Ret(FALSE, "Postal code cannot exceed 6 characters")
    ELSE IF ~re_imported THEN Raise("NameError")
    ELSE IF ~postal_pattern(strip(postal_code))
    THEN Ret(FALSE, "Postal code must be 5-6 digits")
    ELSE Valid

\* Values of the amount, quantity and ship-date parameters.
NumV(v) == [tag |-> "num", v |-> v]

NaN == [tag |-> "nan", v |-> 0]

IntV(v) == [tag |-> "int", v |-> v]

Text == [tag |-> "text", v |-> 0]

\* float(amount): a float, or ValueError for a str that is no number.
py_float(amount) ==
    IF amount.tag = "text" THEN Raise("ValueError") ELSE amount

validate_amount(amount) ==
    LET amount_float == py_float(amount) IN
    IF amount_float = Raise("ValueError")
    THEN Ret(FALSE, "Invalid amount format")
    ELSE IF amount_float.tag = "num" /\ amount_float.v < 0
    THEN Ret(FALSE, "Amount cannot be negative")
    ELSE IF amount_float.tag = "num" /\ amount_float.v > MaxAmount
    THEN Ret(FALSE, "Amount exceeds maximum limit")
    ELSE Valid

\* int(quantity): an int, or ValueError for a str that is no integer.
py_int(quantity) ==
    IF quantity.tag = "text" THEN Raise("ValueError") ELSE quantity

validate_quantity(quantity) ==
    LET qty == py_int(quantity) IN
    IF qty = Raise("ValueError")
    THEN Ret(FALSE, "Quantity must be a number")
    ELSE IF qty.v <= 0
    THEN Ret(FALSE, "Quantity must be greater than 0")
    ELSE IF qty.v > MaxQuantity
    THEN Ret(FALSE, "Quantity cannot exceed 1000")
    ELSE Valid


\* A ship date: None, a datetime at instant t, or a str that is no ISO date.
NoneDate == [tag |-> "none", t |-> 0]

Dt(t) == [tag |-> "dt", t |-> t]

BadDate == [tag |-> "text", t |-> 0]

\* The check of the parsed dates left out.
validate_ship_date_unchecked(order_date, ship_date) ==
    IF ship_date.tag = "text"
    THEN Ret(FALSE, "Invalid date format: Invalid isoformat string")
    ELSE Valid

\* The comparison the wrong way round.
validate_ship_date_reversed(order_date, ship_date) ==
    IF ship_date.tag = "none" THEN Valid
    ELSE IF ship_date.tag = "text"
    THEN Ret(FALSE, "Invalid date format: Invalid isoformat string")
    ELSE IF ship_date.t > order_date
    THEN Ret(FALSE, "Ship date cannot be before order date")
    ELSE Valid

\* order_date is the datetime read from the orders row.
validate_ship_date(order_date, ship_date) ==
    IF ship_date.tag = "none" THEN Valid
    ELSE IF ship_date.tag = "text"
    THEN Ret(FALSE, "Invalid date format: Invalid isoformat string")
    ELSE IF ship_date.t < order_date
    THEN Ret(FALSE, "Ship date cannot be before order date")
    ELSE Valid

\* Python truth value of the ship_date argument (`if ship_date:`).
truthy(ship_date) == ship_date.tag # "none"

(***************************************************************************)
(* The relational store.  A database value holds the committed rows of     *)
(* the tables the operations write (customers, orders, order_items) and    *)
(* of those they only read (products, product_categories,                  *)
(* payment_methods, channels).  A connection works on a transaction: a     *)
(* private copy that commit() publishes and rollback() (or closing the     *)
(* connection without commit) discards.                                    *)
(***************************************************************************)
VARIABLES
    db,            \* the committed rows, a set or list of rows per table
    order_seq,     \* last value drawn from the orders.order_id sequence
    customer_seq,  \* last value drawn from the customers.customer_id sequence
    now,           \* the database server's clock
    last,          \* the last call: operation, arguments, fault, result, store before
    sessions,      \* the calls under way at once, each at a step of its own
    session_state, \* st.session_state of the user's session: the order in progress
    clicks         \* the buttons of the order page clicked so far

vars ==
    <<db, order_seq, customer_seq, now, last, sessions, session_state, clicks>>

Statuses == {"Pending", "Processing", "Shipped", "Delivered", "Cancelled"}

\* The text of a driver exception, str(e).
DriverError == "psycopg2 error"

commit(committed, txn) == txn

\* The connection in autocommit mode: nothing is left to discard.
rollback_autocommit(committed, txn) == txn

rollback(committed, txn) == committed

\* Values the orders table gives the columns the INSERT leaves out.
order_defaults(t) ==
    [order_date |-> t, order_status |-> "Pending", ship_date |-> NoneDate]

insert_order(txn, row) == [txn EXCEPT !.orders = @ \cup {row}]

\* The stock of the product sold taken down by the quantity of the item.
insert_order_item_and_deduct(txn, row) ==
    [txn EXCEPT !.order_items = Append(@, row),
                !.products =
                    {IF p.product_name = row.product_name
                     THEN [p EXCEPT !.stock_quantity = @ - row.quantity.v]
                     ELSE p : p \in @}]

insert_order_item(txn, row) == [txn EXCEPT !.order_items = Append(@, row)]

insert_customer(txn, row) == [txn EXCEPT !.customers = @ \cup {row}]

\* item['quantity'] * item['unit_price'], both already validated
py_mul(quantity, unit_price) ==
    IF unit_price.tag = "nan" THEN NaN ELSE NumV(quantity.v * unit_price.v)

\* The subtotal read from the caller's item instead of computed.
item_subtotal_from_caller(item) == item.subtotal

\* The value bound to order_items.subtotal.
item_subtotal(item) == py_mul(item.quantity, item.unit_price)

RECURSIVE sum_subtotals(_)
sum_subtotals(items) ==
    IF items = <<>> THEN 0
    ELSE (IF Head(items).quantity.tag = "int" /\ Head(items).unit_price.tag = "num"
          THEN Head(items).quantity.v * Head(items).unit_price.v ELSE 0)
         + sum_subtotals(Tail(items))

\* The order total recomputed from the items instead of taken as given.
order_total_recomputed(total_amount, items) == NumV(sum_subtotals(items))

\* The value bound to orders.total_amount.
order_total(total_amount, items) == total_amount

\* The WHERE clause left out of the SELECT.
select_order_any(d, order_id) == d.orders

\* SELECT order_date, order_status FROM orders WHERE order_id = %s
select_order(d, order_id) == {o \in d.orders : o.order_id = order_id}

\* The text st.error shows when psycopg2.connect raises.
ConnectionError == "Database connection error: " \o DriverError

\* What an operation hands back to its caller and leaves behind:
\* res the result, db the committed rows, seq the sequence value,
\* connects the calls of get_db_connection, statements the statements
\* issued, calls the methods called on the connection, in order,
\* errors the texts shown with st.error, and checks the validator calls
\* made on the items of an order, in order (none but in create_order).
Out(res, d, seq, connects, statements, calls, errors) ==
    [res |-> res, db |-> d, seq |-> seq, connects |-> connects,
     statements |-> statements, calls |-> calls, errors |-> errors,
     checks |-> <<>>]

(***************************************************************************)
(* ECommerceDB.create_order.  failAt numbers the storage call that raises: *)
(* 1 the connection, 2 the header INSERT, 2 + i the INSERT of item i,      *)
(* 3 + Len(items) the commit; 0 when none does.                            *)
(***************************************************************************)
\* The unit price of the item looked at before its quantity.
validate_item_price_first(item) ==
    LET vq == validate_quantity(item.quantity)
        vp == validate_amount(item.unit_price)
    IN  IF ~vp.ok THEN [exc |-> vp.msg, checks |-> <<"unit_price">>]
        ELSE IF ~vq.ok
        THEN [exc |-> vq.msg, checks |-> <<"unit_price", "quantity">>]
        ELSE [exc |-> "", checks |-> <<"unit_price", "quantity">>]

\* The two checks at the head of the loop body: validate_quantity, then
\* validate_amount on the unit price, each raising ValueError(msg) when it
\* rejects.  exc is msg, or "" when neither rejects; checks names the
\* fields a validator was called on, in order.
validate_item(item) ==
    LET vq == validate_quantity(item.quantity)
        vp == validate_amount(item.unit_price)
    IN  IF ~vq.ok THEN [exc |-> vq.msg, checks |-> <<"quantity">>]
        ELSE IF ~vp.ok
        THEN [exc |-> vp.msg, checks |-> <<"quantity", "unit_price">>]
        ELSE [exc |-> "", checks |-> <<"quantity", "unit_price">>]

\* The loop `for item in items`, from item i on.  exc is "" when the loop
\* ends normally and str(e) of the exception raised otherwise; checks
\* lists the validator calls made, each with the position of its item.
RECURSIVE insert_items(_, _, _, _, _)
insert_items(txn, order_id, items, i, failAt) ==
    IF i > Len(items)
    THEN [exc |-> "", txn |-> txn, statements |-> i, checks |-> <<>>]
    ELSE
        LET item == items[i]
            v == validate_item(item)
            checks == [k \in DOMAIN v.checks |->
                          [item |-> i, field |-> v.checks[k]]]
            subtotal == item_subtotal(item)
            row == [order_id |-> order_id, product_name |-> item.product_name,
                    quantity |-> item.quantity, unit_price |-> item.unit_price,
                    subtotal |-> subtotal]
            rest == insert_items(insert_order_item(txn, row), order_id, items,
                                 i + 1, failAt)
        IN  IF v.exc # ""
            THEN [exc |-> v.exc, txn |-> txn, statements |-> i,
                  checks |-> checks]
            ELSE IF failAt = 2 + i
            THEN [exc |-> DriverError, txn |-> txn, statements |-> i + 1,
                  checks |-> checks]
            ELSE [rest EXCEPT !.checks = checks \o @]

create_order(d, seq, t, customer_id, payment_method_id, channel_id, total_amount, shipping_address, items, failAt) ==
    LET v == validate_amount(total_amount)
        order_id == seq + 1
        header == [order_id |-> order_id, customer_id |-> customer_id,
                   payment_method_id |-> payment_method_id,
                   channel_id |-> channel_id,
                   total_amount |-> order_total(total_amount, items),
                   shipping_address |-> shipping_address] @@ order_defaults(t)
        txn1 == insert_order(d, header)
        loop == insert_items(txn1, order_id, items, 1, failAt)
        failed(str_e, txn, nseq, statements, calls) ==
            Out(Ret(FALSE, "Error creating order: " \o str_e),
                rollback(d, txn), nseq, 1, statements,
                calls \o <<"rollback", "close">>, <<>>)
        looped(out) == [out EXCEPT !.checks = loop.checks]
    IN  IF ~v.ok THEN Out(Ret(FALSE, v.msg), d, seq, 0, 0, <<>>, <<>>)
        ELSE IF failAt = 1
        THEN Out(Ret(FALSE, "Database connection failed"), d, seq, 1, 0,
                 <<>>, <<ConnectionError>>)
        ELSE IF failAt = 2 THEN failed(DriverError, d, seq, 1, <<>>)
        ELSE IF loop.exc # ""
        THEN looped(failed(loop.exc, loop.txn, order_id, loop.statements,
                           <<>>))
        ELSE IF failAt = 3 + Len(items)
        THEN looped(failed(DriverError, loop.txn, order_id, loop.statements,
                           <<"commit">>))
        ELSE looped(Out(Ret(TRUE, "Order created successfully! Order ID: "
                                      \o ToString(order_id)),
                        commit(d, loop.txn), order_id, 1, loop.statements,
                        <<"commit", "close">>, <<>>))

(***************************************************************************)
(* ECommerceDB.update_order_status.  failAt: 1 the connection, 2 the       *)
(* SELECT, 3 the UPDATE, 4 the commit; 0 when no storage call raises.      *)
(***************************************************************************)
\* An order that is Delivered or Cancelled keeps its status.
update_order_unless_closed(row, new_status, ship_date) ==
    IF row.order_status \in {"Delivered", "Cancelled"} THEN row
    ELSE [row EXCEPT !.order_status = new_status]

\* UPDATE orders SET order_status = %s, ship_date = %s WHERE order_id = %s
\* when a ship date is given, and without the ship_date when none is.
update_order(row, new_status, ship_date) ==
    IF truthy(ship_date)
    THEN [row EXCEPT !.order_status = new_status, !.ship_date = ship_date]
    ELSE [row EXCEPT !.order_status = new_status]

update_order_status(d, order_id, new_status, ship_date, failAt) ==
    LET result == select_order(d, order_id)
        row == CHOOSE o \in result : TRUE
        v == validate_ship_date(row.order_date, ship_date)
        updated == update_order(row, new_status, ship_date)
        txn == [d EXCEPT !.orders = (@ \ {row}) \cup {updated}]
        failed(work, statements, calls) ==
            Out(Ret(FALSE, "Error updating order: " \o DriverError),
                rollback(d, work), 0, 1, statements,
                calls \o <<"rollback", "close">>, <<>>)
    IN  IF failAt = 1
        THEN Out(Ret(FALSE, "Database connection failed"), d, 0, 1, 0,
                 <<>>, <<ConnectionError>>)
        ELSE IF failAt = 2 THEN failed(d, 1, <<>>)
        ELSE IF result = {}
        THEN Out(Ret(FALSE, "Order not found"), d, 0, 1, 1, <<"close">>, <<>>)
        ELSE IF truthy(ship_date) /\ ~v.ok
        THEN Out(Ret(FALSE, v.msg), d, 0, 1, 1, <<"close">>, <<>>)
        ELSE IF failAt = 3 THEN failed(d, 2, <<>>)
        ELSE IF failAt = 4 THEN failed(txn, 2, <<"commit">>)
        ELSE Out(Ret(TRUE, "Order #" \o ToString(order_id) \o " updated to '"
                           \o new_status \o "'"),
                 commit(d, txn), 0, 1, 2, <<"commit", "close">>, <<>>)

\* The submit of the update form of manage_orders_page: the date picked
\* goes to update_order_status only with a new status of Shipped or
\* Delivered (the form shows no date input for the others), None
\* otherwise.
manage_orders_submit(d, order_id, new_status, new_ship_date, failAt) ==
    LET ship_datetime ==
            IF truthy(new_ship_date) /\ new_status \in {"Shipped", "Delivered"}
            THEN new_ship_date
            ELSE NoneDate
    IN  update_order_status(d, order_id, new_status, ship_datetime, failAt)


(***************************************************************************)
(* ECommerceDB.add_customer.  failAt: 1 the connection, 2 the INSERT (with *)
(* exc the class of the exception), 3 the commit; 0 when none raises.  The *)
(* list `validations` is built before the loop reads it, so all five       *)
(* validators run, in order, and an exception in one of them leaves        *)
(* add_customer before any verdict is looked at.                           *)
(***************************************************************************)
Min(S) == CHOOSE x \in S : \A y \in S : x <= y

add_customer(d, seq, first_name, last_name, email, phone, address, city, postal_code, failAt, exc) ==
    LET validations == <<validate_name(first_name, "First name"),
                         validate_name(last_name, "Last name"),
                         validate_email(email),
                         validate_phone(phone),
                         validate_postal_code(postal_code)>>
        raised == {i \in 1..5 : validations[i].kind = "raise"}
        rejected == {i \in 1..5 : ~validations[i].ok}
        customer_id == seq + 1
        row == [customer_id |-> customer_id, first_name |-> first_name,
                last_name |-> last_name, email |-> email, phone |-> phone,
                address |-> address, city |-> city, postal_code |-> postal_code]
        txn == insert_customer(d, row)
    IN  IF raised # {}
        THEN Out(Raise(validations[Min(raised)].msg), d, seq, 0, 0, <<>>, <<>>)
        ELSE IF rejected # {}
        THEN Out(Ret(FALSE, validations[Min(rejected)].msg), d, seq, 0, 0,
                 <<>>, <<>>)
        ELSE IF failAt = 1
        THEN Out(Ret(FALSE, "Database connection failed"), d, seq, 1, 0,
                 <<>>, <<ConnectionError>>)
        ELSE IF failAt = 2 /\ exc = "IntegrityError"
        THEN Out(Ret(FALSE, "Database integrity error"), rollback(d, d), seq,
                 1, 1, <<"rollback">>, <<>>)
        ELSE IF failAt = 2
        THEN Out(Ret(FALSE, "Error adding customer: " \o DriverError),
                 rollback(d, d), seq, 1, 1, <<"rollback">>, <<>>)
        ELSE IF \E c \in d.customers : c.email = email
        THEN Out(Ret(FALSE, "Email already exists in the system"),
                 rollback(d, d), seq, 1, 1, <<"rollback">>, <<>>)
        ELSE IF failAt = 3
        THEN Out(Ret(FALSE, "Error adding customer: " \o DriverError),
                 rollback(d, txn), customer_id, 1, 1,
                 <<"commit", "rollback">>, <<>>)
        ELSE Out(Ret(TRUE, "Customer added successfully! ID: " \o ToString(customer_id)),
                 commit(d, txn), customer_id, 1, 1, <<"commit", "close">>, <<>>)

(***************************************************************************)
(* The read operations.  Each asks for a connection, runs its SELECT and   *)
(* returns what it fetched: a list of rows, one row, a dict, or None.      *)
(* failAt: 1 the connection, 2 the first statement, 3 the second; 0 when   *)
(* no storage call raises.  The except branch shows the error with         *)
(* st.error and returns the same empty value as the branch taken when no   *)
(* connection could be had; it calls nothing on the connection.            *)
(***************************************************************************)
\* A returned list of rows.
List(rows) == [kind |-> "list", rows |-> rows]

\* The returned None.
None == [kind |-> "None"]

\* The returned {'order': order, 'items': items}.
Dict(order, items) == [kind |-> "dict", order |-> order, items |-> items]

\* DATE(order_date): the calendar day of an instant, two instants of the
\* model's clock to the day.
DATE(order_date) == order_date \div 2

\* The names the store holds in its text columns, in the order the
\* database sorts them.
Collation == <<"Ink", "Office", "Pen">>

TextColumns == {"category_name", "product_name"}

\* The value of a column as ORDER BY compares it: a number as it is, a
\* text by its place in the collation.
sort_key(row, key) ==
    IF key \in TextColumns
    THEN CHOOSE i \in DOMAIN Collation : Collation[i] = row[key]
    ELSE row[key]

\* The rows of S as a list in the order of ORDER BY key (DESC when desc),
\* key being the name of a column; rows with equal keys come in an order
\* of the database's choosing.
OrderBy(S, key, desc) ==
    CHOOSE s \in [1..Cardinality(S) -> S] :
        /\ \A i, j \in DOMAIN s : i # j => s[i] # s[j]
        /\ \A i, j \in DOMAIN s :
              i < j => IF desc THEN sort_key(s[i], key) >= sort_key(s[j], key)
                               ELSE sort_key(s[i], key) <= sort_key(s[j], key)

\* The results that ORDER BY key DESC LIMIT n can have: the database is
\* free to pick among rows of equal key.
Latest(S, key, n) ==
    {T \in SUBSET S :
        /\ Cardinality(T) = IF n < Cardinality(S) THEN n ELSE Cardinality(S)
        /\ \A a \in T, b \in S \ T : a[key] >= b[key]}

\* What a read operation leaves behind when it got no connection.
read_unconnected(d, empty) ==
    Out(empty, d, 0, 1, 0, <<>>, <<ConnectionError>>)

\* What a read operation leaves behind when a statement raised.
read_failed(d, statements, label, empty) ==
    Out(empty, d, 0, 1, statements, <<>>, <<label \o DriverError>>)

\* What a read operation leaves behind when it fetched its rows.
read_done(d, statements, res) ==
    Out(res, d, 0, 1, statements, <<"close">>, <<>>)

get_payment_methods(d, failAt) ==
    LET methods == {[payment_method_id |-> m.payment_method_id,
                     method_name |-> m.method_name] :
                        m \in {x \in d.payment_methods : x.is_active}}
    IN  IF failAt = 1 THEN read_unconnected(d, List(<<>>))
        ELSE IF failAt = 2
        THEN read_failed(d, 1, "Error fetching payment methods: ", List(<<>>))
        ELSE read_done(d, 1, List(OrderBy(methods, "payment_method_id", FALSE)))

get_channels(d, failAt) ==
    IF failAt = 1 THEN read_unconnected(d, List(<<>>))
    ELSE IF failAt = 2
    THEN read_failed(d, 1, "Error fetching channels: ", List(<<>>))
    ELSE read_done(d, 1, List(OrderBy(d.channels, "channel_id", FALSE)))

\* created_at is not kept in the model: customer_id, drawn from a sequence
\* at the insert, stands for it in the ORDER BY.
get_customers(d, failAt) ==
    LET customers == {[customer_id |-> c.customer_id,
                       first_name |-> c.first_name, last_name |-> c.last_name,
                       email |-> c.email, phone |-> c.phone, city |-> c.city] :
                            c \in d.customers}
    IN  IF failAt = 1 THEN read_unconnected(d, List(<<>>))
        ELSE IF failAt = 2
        THEN read_failed(d, 1, "Error fetching customers: ", List(<<>>))
        ELSE read_done(d, 1, List(OrderBy(customers, "customer_id", TRUE)))

get_product_categories(d, failAt) ==
    LET categories == {[category_id |-> c.category_id,
                        category_name |-> c.category_name] :
                            c \in {x \in d.product_categories : x.is_active}}
    IN  IF failAt = 1 THEN read_unconnected(d, List(<<>>))
        ELSE IF failAt = 2
        THEN read_failed(d, 1, "Error fetching categories: ", List(<<>>))
        ELSE read_done(d, 1, List(OrderBy(categories, "category_name", FALSE)))

get_products_by_category(d, category_id, failAt) ==
    LET products == {[product_id |-> p.product_id,
                      product_name |-> p.product_name,
                      unit_price |-> p.unit_price,
                      stock_quantity |-> p.stock_quantity] :
                        p \in {x \in d.products :
                                  x.category_id = category_id /\ x.is_active}}
    IN  IF failAt = 1 THEN read_unconnected(d, List(<<>>))
        ELSE IF failAt = 2
        THEN read_failed(d, 1, "Error fetching products: ", List(<<>>))
        ELSE read_done(d, 1, List(OrderBy(products, "product_name", FALSE)))

\* cursor.fetchone(): a row when there is one, None otherwise.
fetchone(rows) == IF rows = {} THEN None ELSE CHOOSE r \in rows : TRUE

get_product_details(d, product_id, failAt) ==
    LET product ==
            UNION {{[product_id |-> p.product_id,
                     product_name |-> p.product_name,
                     unit_price |-> p.unit_price,
                     stock_quantity |-> p.stock_quantity,
                     category_name |-> c.category_name] :
                        c \in {x \in d.product_categories :
                                  x.category_id = p.category_id}} :
                   p \in {x \in d.products :
                             x.product_id = product_id /\ x.is_active}}
    IN  IF failAt = 1 THEN read_unconnected(d, None)
        ELSE IF failAt = 2
        THEN read_failed(d, 1, "Error fetching product details: ", None)
        ELSE read_done(d, 1, fetchone(product))

\* FROM orders o JOIN customers c JOIN payment_methods pm JOIN channels ch:
\* the orders that have all three, with the columns the joins bring.
joined_orders(d) ==
    UNION {{[order_id |-> o.order_id, order_date |-> o.order_date,
             ship_date |-> o.ship_date, order_status |-> o.order_status,
             total_amount |-> o.total_amount, customer_id |-> c.customer_id,
             first_name |-> c.first_name, last_name |-> c.last_name,
             email |-> c.email, method_name |-> pm.method_name,
             channel_name |-> ch.channel_name] :
                c \in {x \in d.customers : x.customer_id = o.customer_id},
                pm \in {x \in d.payment_methods :
                           x.payment_method_id = o.payment_method_id},
                ch \in {x \in d.channels : x.channel_id = o.channel_id}} :
           o \in d.orders}

\* The order_items rows of an order, as a list in the order inserted.
order_items_of(d, order_id) ==
    SelectSeq(d.order_items, LAMBDA row : row.order_id = order_id)

get_order_details(d, order_id, failAt) ==
    LET order == fetchone({o \in joined_orders(d) : o.order_id = order_id})
        items == order_items_of(d, order_id)
    IN  IF failAt = 1 THEN read_unconnected(d, None)
        ELSE IF failAt = 2
        THEN read_failed(d, 1, "Error fetching order details: ", None)
        ELSE IF failAt = 3
        THEN read_failed(d, 2, "Error fetching order details: ", None)
        ELSE read_done(d, 2, Dict(order, items))

get_all_orders(d, failAt) ==
    IF failAt = 1 THEN read_unconnected(d, List(<<>>))
    ELSE IF failAt = 2
    THEN read_failed(d, 1, "Error fetching orders: ", List(<<>>))
    ELSE read_done(d, 1, List(OrderBy(joined_orders(d), "order_date", TRUE)))

\* The days of the orders in `latest`.
days(latest) == {DATE(o.order_date) : o \in latest}

RECURSIVE sum_cents(_)
sum_cents(orders) ==
    IF orders = {} THEN 0
    ELSE LET o == CHOOSE x \in orders : TRUE
         IN  o.total_amount.v + sum_cents(orders \ {o})

\* SUM(total_amount) over the rows of a group; NaN when one of them is.
SUM(orders) ==
    IF \E o \in orders : o.total_amount.tag = "nan" THEN NaN
    ELSE NumV(sum_cents(orders))

\* SELECT DATE(order_date), COUNT(*) FROM (latest) GROUP BY DATE(order_date)
\* ORDER BY date
count_by_day(latest) ==
    OrderBy({[date |-> day,
              order_count |->
                  Cardinality({o \in latest : DATE(o.order_date) = day})] :
                day \in days(latest)}, "date", FALSE)

\* SELECT DATE(order_date), SUM(total_amount) FROM (latest)
\* GROUP BY DATE(order_date) ORDER BY date
revenue_by_day(latest) ==
    OrderBy({[date |-> day,
              revenue |-> SUM({o \in latest : DATE(o.order_date) = day})] :
                day \in days(latest)}, "date", FALSE)

\* The first SELECT of get_revenue_by_day names DATE(order_date) beside
\* SUM(total_amount) without a GROUP BY: the database refuses it,
\* whatever the rows are.
ungrouped_select_raises == TRUE

\* latest is the result the database gave the subquery
\* SELECT ... FROM orders ORDER BY order_date DESC LIMIT limit.
get_revenue_by_day(d, limit, latest, failAt) ==
    IF failAt = 1 THEN read_unconnected(d, List(<<>>))
    ELSE IF failAt = 2 \/ ungrouped_select_raises
    THEN read_failed(d, 1, "Error fetching revenue data: ", List(<<>>))
    ELSE IF failAt = 3
    THEN read_failed(d, 2, "Error fetching revenue data: ", List(<<>>))
    ELSE read_done(d, 2, List(revenue_by_day(latest)))

get_orders_by_day(d, limit, latest, failAt) ==
    IF failAt = 1 THEN read_unconnected(d, List(<<>>))
    ELSE IF failAt = 2
    THEN read_failed(d, 1, "Error fetching order count data: ", List(<<>>))
    ELSE read_done(d, 1, List(count_by_day(latest)))

\* LEFT JOIN products p ON oi.product_name = p.product_name LEFT JOIN
\* product_categories pc: the category names joined to a product name,
\* NULL when there is none.
category_of(d, product_name) ==
    LET found == UNION {{pc.category_name :
                            pc \in {x \in d.product_categories :
                                       x.category_id = p.category_id}} :
                        p \in {x \in d.products :
                                  x.product_name = product_name}}
    IN  IF found = {} THEN {"NULL"} ELSE found

\* The joined rows of the latest-orders SELECT: one per order item (and
\* per category joined to it), or one with no category for an order
\* without items.  oi, the position of the item joined, is no column of
\* the result; it keeps equal rows of different items apart.
latest_orders_rows(d) ==
    UNION {
        LET items == order_items_of(d, o.order_id)
            row(oi, category) ==
                [order_id |-> o.order_id, customer_id |-> o.customer_id,
                 order_date |-> o.order_date, ship_date |-> o.ship_date,
                 status |-> o.order_status, category |-> category,
                 channel |-> o.channel_name, total_amount |-> o.total_amount,
                 payment |-> o.method_name, oi |-> oi]
        IN  IF items = <<>> THEN {row(0, "NULL")}
            ELSE UNION {{row(i, category) :
                            category \in category_of(d, items[i].product_name)} :
                        i \in DOMAIN items} :
        o \in joined_orders(d)}

\* latest is the result the database gave ORDER BY o.order_date DESC
\* LIMIT limit over latest_orders_rows.
get_latest_orders_table(d, limit, latest, failAt) ==
    IF failAt = 1 THEN read_unconnected(d, List(<<>>))
    ELSE IF failAt = 2
    THEN read_failed(d, 1, "Error fetching latest orders: ", List(<<>>))
    ELSE read_done(d, 1, List(OrderBy(latest, "order_date", TRUE)))

(***************************************************************************)
(* The registration form (add_customer_page).  On submit the handler       *)
(* strips the seven fields, asks for the first empty one (an st.error,     *)
(* shown here without its leading symbol) and otherwise hands them to      *)
(* add_customer and shows its message.                                     *)
(***************************************************************************)
\* The fields in the order the handler looks at them, with their labels.
FormFields ==
    <<"first_name", "last_name", "email", "phone", "address", "city",
      "postal_code">>

FieldLabel ==
    [first_name |-> "First Name", last_name |-> "Last Name",
     email |-> "Email", phone |-> "Phone Number", address |-> "Address",
     city |-> "City", postal_code |-> "Postal Code"]

\* The chain looking at the five fields that have a validator only.
first_empty_of_validated(fields) ==
    LET empty == {i \in {1, 2, 3, 4, 7} : fields[FormFields[i]] = <<>>}
    IN  IF empty = {} THEN 0 ELSE Min(empty)

\* if not first_name: ... elif not last_name: ... : the position of the
\* first field that is empty, 0 when none is.
first_empty(fields) ==
    LET empty == {i \in DOMAIN FormFields : fields[FormFields[i]] = <<>>}
    IN  IF empty = {} THEN 0 ELSE Min(empty)

\* called tells whether the handler went as far as calling add_customer;
\* out is what it left behind.  The handler returns nothing: what it has
\* to say it shows, and an exception out of add_customer leaves it.
add_customer_page(d, seq, form, failAt, exc) ==
    LET fields == [k \in DOMAIN form |-> strip(form[k])]
        i == first_empty(fields)
        out == add_customer(d, seq, fields.first_name, fields.last_name,
                            fields.email, fields.phone, fields.address,
                            fields.city, fields.postal_code, failAt, exc)
    IN  IF i # 0
        THEN [called |-> FALSE,
              out |-> Out(None, d, seq, 0, 0, <<>>,
                          <<FieldLabel[FormFields[i]] \o " is required">>)]
        ELSE IF out.res.kind = "raise" THEN [called |-> TRUE, out |-> out]
        ELSE [called |-> TRUE,
              out |-> [out EXCEPT !.res = None,
                                  !.errors = IF out.res.ok THEN @
                                             ELSE Append(@, out.res.msg)]]

(***************************************************************************)
(* The order page (create_order_page).  The order in progress is the list  *)
(* st.session_state.order_items of line items, each with a product name,   *)
(* a quantity and a unit price.  A click runs the page from the top: it    *)
(* reads the customers, payment methods, channels, categories and products *)
(* (taken here to succeed: when the customers cannot be read the page      *)
(* stops before its buttons), then acts on the button clicked.             *)
(***************************************************************************)
\* The entry of product_options for a row of get_products_by_category.
product_info(p) ==
    [id |-> p.product_id, name |-> p.product_name, price |-> p.unit_price,
     stock |-> p.stock_quantity]

\* max_qty = min(product_info['stock'], 1000), the max_value of the
\* quantity input, whose min_value is 1.
max_qty(info) == IF info.stock < MaxQuantity THEN info.stock ELSE MaxQuantity

\* The positions of the lines of a product name.
lines_of(order_items, name) ==
    {idx \in DOMAIN order_items : order_items[idx].product_name = name}

\* A line appended at every click, whatever the cart holds.
add_to_order_appending(order_items, info, quantity) ==
    IF quantity > info.stock THEN order_items
    ELSE Append(order_items,
                [product_name |-> info.name, quantity |-> IntV(quantity),
                 unit_price |-> info.price])

\* The button Add to Order: the order items after the click.  The first
\* line of the product's name, when there is one, gets the quantity added
\* to its own; otherwise a new line comes last.
add_to_order(order_items, info, quantity) ==
    LET existing_item == lines_of(order_items, info.name)
    IN  IF quantity > info.stock THEN order_items
        ELSE IF existing_item # {}
        THEN [order_items EXCEPT
                 ![Min(existing_item)].quantity = IntV(@.v + quantity)]
        ELSE Append(order_items,
                    [product_name |-> info.name, quantity |-> IntV(quantity),
                     unit_price |-> info.price])

\* st.session_state.order_items.pop(idx), idx counted from 1 here.
remove_item(order_items, idx) ==
    SubSeq(order_items, 1, idx - 1)
        \o SubSeq(order_items, idx + 1, Len(order_items))

\* st.session_state.order_items = []
clear_all_items(order_items) == <<>>

\* The unit prices added up, the quantities left out.
RECURSIVE cart_total_of_unit_prices(_)
cart_total_of_unit_prices(order_items) ==
    IF order_items = <<>> THEN NumV(0)
    ELSE NumV(Head(order_items).unit_price.v
                + cart_total_of_unit_prices(Tail(order_items)).v)

\* total = 0; for each line: total += item['quantity'] * item['unit_price']
RECURSIVE cart_total(_)
cart_total(order_items) ==
    IF order_items = <<>> THEN NumV(0)
    ELSE NumV(py_mul(Head(order_items).quantity,
                     Head(order_items).unit_price).v
                + cart_total(Tail(order_items)).v)

\* What the page does with the result of create_order: on success it
\* empties the order items, on failure it shows the message and leaves
\* them.  out is what create_order left behind.
order_placed(order_items, out) ==
    IF out.res.ok
    THEN [called |-> TRUE, order_items |-> <<>>, out |-> out]
    ELSE [called |-> TRUE, order_items |-> order_items,
          out |-> [out EXCEPT !.errors = Append(@, out.res.msg)]]

\* The button Place Order.  called tells whether create_order was called,
\* out is what the click left behind, order_items the order items after
\* it.
place_order(d, seq, t, customer_id, payment_method_id, channel_id, shipping_address, order_items, failAt) ==
    LET total == cart_total(order_items)
        unasked(message) ==
            [called |-> FALSE, order_items |-> order_items,
             out |-> Out(None, d, seq, 0, 0, <<>>, <<message>>)]
    IN  IF shipping_address = <<>>
        THEN unasked("Please enter shipping address")
        ELSE IF Len(order_items) = 0
        THEN unasked("Please add at least one item")
        ELSE order_placed(order_items,
                          create_order(d, seq, t, customer_id,
                                       payment_method_id, channel_id, total,
                                       shipping_address, order_items, failAt))

(***************************************************************************)
(* Inputs.                                                                 *)
(***************************************************************************)
LongName == Rep("a", MaxNameLen + 1)

NameSamples ==
    {<<>>, <<"A">>, <<"A", "n", "a">>, <<"A", "n", "4">>, LongName}

SeedEmail == <<"a", "@", "b", ".", "c", "o">>

EmailSamples ==
    {SeedEmail, <<"c", "@", "d", ".", "o", "r", "g">>, <<"a", "b", ".", "c", "o">>}

PhoneSamples ==
    {<<"0", "1", "2", "3", "4", "5", "6", "7", "8">>,
     <<"0", "1", "2", "3", "4", "5", "6">>}

PostalSamples ==
    {<<"1", "2", "3", "4", "5">>, <<"1", "2", "0", "1", "0", "1">>,
     <<"1", "2", "3", "4">>, <<"a", "b", "c", "d", "e">>}

Address == <<"S", "t", " ", "1">>

City == <<"K", "e", "p">>

\* The customer the store holds from the start (the order page needs one).
SeedCustomer ==
    [customer_id |-> 1, first_name |-> <<"A", "n", "a">>,
     last_name |-> <<"L", "y">>, email |-> SeedEmail,
     phone |-> <<"0", "1", "2", "3", "4", "5", "6", "7", "8">>,
     address |-> Address, city |-> City,
     postal_code |-> <<"1", "2", "0", "1", "0", "1">>]

\* The reference rows the store holds from the start: the order page
\* offers the active products of a category, the payment methods and the
\* channels.
SeedCategory ==
    [category_id |-> 1, category_name |-> "Office", is_active |-> TRUE]

SeedProduct ==
    [product_id |-> 1, product_name |-> "Pen", category_id |-> 1,
     unit_price |-> NumV(250), stock_quantity |-> 5, is_active |-> TRUE]

SeedPaymentMethod ==
    [payment_method_id |-> 1, method_name |-> "Cash", is_active |-> TRUE]

SeedChannel == [channel_id |-> 1, channel_name |-> "Web"]

\* An item dict.  Besides the three keys create_order reads it carries a
\* subtotal of the caller's own, which create_order has no use for.
Item(q, p) ==
    [product_name |-> "Pen", quantity |-> q, unit_price |-> p,
     subtotal |-> NumV(7)]

\* Three items the validators accept and five they reject.
ItemSamples ==
    {Item(IntV(1), NumV(MaxAmount)), Item(IntV(MaxQuantity), NumV(0)),
     Item(IntV(2), NaN),
     Item(IntV(0), NumV(250)), Item(IntV(MaxQuantity + 1), NumV(250)),
     Item(IntV(2), NumV(-1)), Item(IntV(2), NumV(MaxAmount + 1)),
     Item(Text, NumV(250))}

SeqsUpTo(S, n) == UNION {[1..k -> S] : k \in 0..n}

ItemLists == SeqsUpTo(ItemSamples, MaxItems)

SimpleItemLists ==
    {<<>>, <<Item(IntV(2), NumV(250))>>,
     <<Item(IntV(2), NumV(250)), Item(IntV(1), NumV(0))>>}

Totals ==
    {NumV(-1), NumV(0), NumV(MaxAmount), NumV(MaxAmount + 1), NaN, Text}

\* Every total with a few item lists, and every item list with one total.
OrderInputs ==
    {[total |-> t, items |-> l] : t \in Totals, l \in SimpleItemLists}
        \cup {[total |-> NumV(250), items |-> l] : l \in ItemLists}

SimpleOrderInputs ==
    {[total |-> NumV(250), items |-> l] : l \in {<<>>, <<Item(IntV(2), NumV(250))>>}}

ShipDates == {NoneDate, BadDate} \cup {Dt(t) : t \in 0..MaxTime}

(***************************************************************************)
(* The state machine.                                                      *)
(***************************************************************************)
NoCall ==
    [op |-> "none", args |-> <<>>, failAt |-> 0, res |-> Ret(TRUE, ""),
     connects |-> 0, statements |-> 0, calls |-> <<>>, errors |-> <<>>,
     checks |-> <<>>, pre |-> <<>>]

Init ==
    /\ db = [customers |-> {SeedCustomer}, orders |-> {}, order_items |-> <<>>,
             products |-> {SeedProduct}, product_categories |-> {SeedCategory},
             payment_methods |-> {SeedPaymentMethod},
             channels |-> {SeedChannel}]
    /\ order_seq = 0
    /\ customer_seq = 1
    /\ now = 0
    /\ last = NoCall
    /\ sessions = <<>>
    /\ session_state = [order_items |-> <<>>]
    /\ clicks = 0

Call(op, args, failAt, out) ==
    /\ db' = out.db
    /\ last' = [op |-> op, args |-> args, failAt |-> failAt, res |-> out.res,
                connects |-> out.connects, statements |-> out.statements,
                calls |-> out.calls, errors |-> out.errors,
                checks |-> out.checks, pre |-> db]
    /\ UNCHANGED <<sessions, session_state, clicks>>

AddCustomer ==
    /\ last = NoCall
    /\ customer_seq < MaxCustomers
    /\ \E first_name \in NameSamples, last_name \in NameSamples,
          email \in EmailSamples, phone \in PhoneSamples,
          postal_code \in PostalSamples, failAt \in 0..3,
          exc \in {"IntegrityError", "OperationalError"} :
        LET out == add_customer(db, customer_seq, first_name, last_name, email,
                                phone, Address, City, postal_code, failAt, exc)
        IN  /\ failAt # 2 => exc = "OperationalError"
            /\ Call("add_customer",
                    [first_name |-> first_name, last_name |-> last_name,
                     email |-> email, phone |-> phone, address |-> Address,
                     city |-> City, postal_code |-> postal_code, exc |-> exc],
                    failAt, out)
            /\ customer_seq' = out.seq
    /\ UNCHANGED <<order_seq, now>>

CreateOrder(Inputs) ==
    /\ last = NoCall
    /\ order_seq < MaxOrders
    /\ \E in \in Inputs :
       \E failAt \in 0..(3 + Len(in.items)) :
        LET out == create_order(db, order_seq, now, 1, 1, 1, in.total, Address,
                                in.items, failAt)
        IN  /\ Call("create_order",
                    [customer_id |-> 1, total_amount |-> in.total,
                     items |-> in.items],
                    failAt, out)
            /\ order_seq' = out.seq
    /\ UNCHANGED <<customer_seq, now>>

UpdateOrderStatus(new_statuses, ship_dates) ==
    /\ last = NoCall
    /\ \E order_id \in 1..(MaxOrders + 1), new_status \in new_statuses,
          ship_date \in ship_dates, failAt \in 0..4 :
        LET out == update_order_status(db, order_id, new_status, ship_date, failAt)
        IN  Call("update_order_status",
                 [order_id |-> order_id, new_status |-> new_status,
                  ship_date |-> ship_date],
                 failAt, out)
    /\ UNCHANGED <<order_seq, customer_seq, now>>

\* The page shows the result of the call (st.success or st.error) and the
\* script ends; the next user action starts from there.
Render ==
    /\ last # NoCall
    /\ last' = NoCall
    /\ UNCHANGED <<db, order_seq, customer_seq, now, sessions, session_state, clicks>>

\* Time passes on the database server, between two calls.
Tick ==
    /\ last = NoCall
    /\ now < MaxTime
    /\ now' = now + 1
    /\ UNCHANGED <<db, order_seq, customer_seq, last, sessions, session_state, clicks>>

\* Orders through their life: created, then updated, as time passes.
Next ==
    \/ CreateOrder(SimpleOrderInputs)
    \/ UpdateOrderStatus(Statuses, ShipDates)
    \/ Render
    \/ Tick

Spec == Init /\ [][Next]_vars

\* Order creation over all the totals, item lists and storage outcomes.
NextOrder == CreateOrder(OrderInputs) \/ Render \/ Tick

SpecOrder == Init /\ [][NextOrder]_vars

\* Order creation over lists of up to three items, each valid, invalid in
\* its quantity, in its unit price, or in both.
ItemCheckSamples ==
    {Item(IntV(2), NumV(250)), Item(IntV(0), NumV(250)),
     Item(IntV(2), NumV(-1)), Item(IntV(0), NumV(-1)),
     Item(IntV(MaxQuantity + 1), NumV(MaxAmount + 1))}

ItemCheckInputs ==
    {[total |-> NumV(250), items |-> l] :
        l \in SeqsUpTo(ItemCheckSamples, MaxItems + 1)}

NextItems == CreateOrder(ItemCheckInputs) \/ Render

SpecItems == Init /\ [][NextItems]_vars

\* The status of orders: update_order_status takes new_status as a str, so
\* a caller can hand it any, one of the five the order page offers or not.
StatusInputs == Statuses \cup {"Refunded"}

StatusOrderInputs ==
    {[total |-> NumV(250), items |-> <<Item(IntV(2), NumV(250))>>]}

NextStatus ==
    \/ CreateOrder(StatusOrderInputs)
    \/ UpdateOrderStatus(StatusInputs, {NoneDate, Dt(0)})
    \/ Render

SpecStatus == Init /\ [][NextStatus]_vars

\* The update form of manage_orders_page, submitted for one of the orders
\* listed: a status of the selectbox and, for Shipped or Delivered, a date
\* of the date input, none before the day of the order.  The date goes on
\* as the instant of its noon, which comes before or after the time of
\* day the order was made.
UpdateOrderForm ==
    /\ last = NoCall
    /\ \E o \in db.orders, new_status \in Statuses, failAt \in 0..4 :
       \E new_ship_date \in
              IF new_status \in {"Shipped", "Delivered"}
              THEN {Dt(t) : t \in (2 * DATE(o.order_date))..MaxTime}
              ELSE {NoneDate} :
        LET ship_datetime ==
                IF truthy(new_ship_date) THEN new_ship_date ELSE NoneDate
            out == manage_orders_submit(db, o.order_id, new_status,
                                        new_ship_date, failAt)
        IN  Call("update_order_status",
                 [order_id |-> o.order_id, new_status |-> new_status,
                  ship_date |-> ship_datetime],
                 failAt, out)
    /\ UNCHANGED <<order_seq, customer_seq, now>>

\* Orders created and then updated through the manage-orders page only.
NextShipping ==
    \/ CreateOrder(StatusOrderInputs)
    \/ UpdateOrderForm
    \/ Render
    \/ Tick

SpecShipping == Init /\ [][NextShipping]_vars

\* Customer registration over all the field samples and storage outcomes.
NextCustomer == AddCustomer \/ Render

SpecCustomer == Init /\ [][NextCustomer]_vars


\* What the form can hold on submit: nothing, blanks, or a value with
\* blanks around it.  (The city comes from a selectbox of city names; the
\* handler checks it all the same.)
Padded(s) == <<" ">> \o s \o <<" ">>

FormInputs ==
    [first_name : {<<>>, Padded(<<"A", "n", "a">>)},
     last_name : {<<>>, <<" ">>, <<"L", "y">>},
     email : {<<>>, <<" ">>, <<"c", "@", "d", ".", "o", "r", "g">>},
     phone : {<<" ">>, <<"0", "1", "2", "3", "4", "5", "6", "7", "8">>},
     address : {<<>>, <<" ", " ">>, Address},
     city : {<<>>, City},
     postal_code : {<<>>, <<"1", "2", "3", "4", "5">>}]

SubmitCustomerForm ==
    /\ last = NoCall
    /\ customer_seq < MaxCustomers
    /\ \E form \in FormInputs, failAt \in 0..3 :
        LET page == add_customer_page(db, customer_seq, form, failAt,
                                      "OperationalError")
        IN  /\ db' = page.out.db
            /\ customer_seq' = page.out.seq
            /\ last' = [op |-> "add_customer_page", args |-> form,
                        failAt |-> failAt, res |-> page.out.res,
                        connects |-> page.out.connects,
                        statements |-> page.out.statements,
                        calls |-> page.out.calls, errors |-> page.out.errors,
                        pre |-> db, called |-> page.called]
    /\ UNCHANGED <<order_seq, now, sessions, session_state, clicks>>

NextRegistration == SubmitCustomerForm \/ Render

SpecRegistration == Init /\ [][NextRegistration]_vars

(***************************************************************************)
(* The name validator on its own, over every string of a few characters    *)
(* (a letter, a digit, a space, a full stop, a hyphen) and over names at   *)
(* the length limit.                                                       *)
(***************************************************************************)
NameChars == {"a", "4", " ", ".", "-"}

NameInputs ==
    SeqsUpTo(NameChars, MaxNameInputLen)
        \cup {Rep("a", MaxNameLen), Rep("a", MaxNameLen + 1),
              Rep("a", MaxNameLen) \o <<" ">>, Rep("4", MaxNameLen)}

\* A caller applies DataValidator.validate_name to a name.
ValidateName ==
    /\ last = NoCall
    /\ \E name \in NameInputs :
          last' = [NoCall EXCEPT !.op = "validate_name",
                                 !.args = [name |-> name],
                                 !.res = validate_name(name, "Name"),
                                 !.pre = db]
    /\ UNCHANGED <<db, order_seq, customer_seq, now, sessions, session_state, clicks>>

NextName == ValidateName \/ Render

SpecName == Init /\ [][NextName]_vars

(***************************************************************************)
(* The postal code validator on its own, over every string of a few        *)
(* characters (a digit, a letter, a space) up to one more than the longest *)
(* code, and over the sample codes.                                        *)
(***************************************************************************)
PostalChars == {"1", "a", " "}

PostalInputs == SeqsUpTo(PostalChars, MaxPostalInputLen) \cup PostalSamples

\* A caller applies DataValidator.validate_postal_code to a value.
ValidatePostalCode ==
    /\ last = NoCall
    /\ \E postal_code \in PostalInputs :
          last' = [NoCall EXCEPT !.op = "validate_postal_code",
                                 !.args = [postal_code |-> postal_code],
                                 !.res = validate_postal_code(postal_code),
                                 !.pre = db]
    /\ UNCHANGED <<db, order_seq, customer_seq, now, sessions, session_state, clicks>>

NextPostal == ValidatePostalCode \/ Render

SpecPostal == Init /\ [][NextPostal]_vars

(***************************************************************************)
(* The order page at work: a user with a session of their own adds        *)
(* products to the order in progress, removes lines, clears them and       *)
(* places the order, a bounded number of clicks in all.  The store offers  *)
(* two products of one category: pens, five in stock, and ink, more in     *)
(* stock than an order line may hold.                                      *)
(***************************************************************************)
InkProduct ==
    [product_id |-> 2, product_name |-> "Ink", category_id |-> 1,
     unit_price |-> NumV(100), stock_quantity |-> 1200, is_active |-> TRUE]

InitCart ==
    /\ db = [customers |-> {SeedCustomer}, orders |-> {}, order_items |-> <<>>,
             products |-> {SeedProduct, InkProduct},
             product_categories |-> {SeedCategory},
             payment_methods |-> {SeedPaymentMethod},
             channels |-> {SeedChannel}]
    /\ order_seq = 0
    /\ customer_seq = 1
    /\ now = 0
    /\ last = NoCall
    /\ sessions = <<>>
    /\ session_state = [order_items |-> <<>>]
    /\ clicks = 0

\* The rows a read of the page fetched.
Rows(out) == {out.res.rows[i] : i \in DOMAIN out.res.rows}

\* A click that changes the order in progress and nothing else.
Click(op, args, order_items) ==
    /\ session_state' = [session_state EXCEPT !.order_items = order_items]
    /\ clicks' = clicks + 1
    /\ last' = [NoCall EXCEPT !.op = op, !.args = args, !.pre = db]
    /\ UNCHANGED <<db, order_seq, customer_seq, now, sessions>>

\* Add to Order, on a product of a category selected, with a quantity of
\* the quantity input: its least or its greatest.
AddToOrder ==
    /\ last = NoCall
    /\ clicks < MaxClicks
    /\ Rows(get_customers(db, 0)) # {}
    /\ \E category \in Rows(get_product_categories(db, 0)) :
       \E p \in Rows(get_products_by_category(db, category.category_id, 0)) :
       \E quantity \in {1, max_qty(product_info(p))} :
          /\ quantity \in 1..max_qty(product_info(p))
          /\ Click("add_to_order",
                   [product_info |-> product_info(p), quantity |-> quantity,
                    order_items |-> session_state.order_items],
                   add_to_order(session_state.order_items, product_info(p),
                                quantity))

\* The remove button of a line shown.
RemoveItem ==
    /\ last = NoCall
    /\ clicks < MaxClicks
    /\ Rows(get_customers(db, 0)) # {}
    /\ \E idx \in DOMAIN session_state.order_items :
          Click("remove_item",
                [idx |-> idx, order_items |-> session_state.order_items],
                remove_item(session_state.order_items, idx))

\* Clear All Items, shown with the lines.
ClearAllItems ==
    /\ last = NoCall
    /\ clicks < MaxClicks
    /\ Rows(get_customers(db, 0)) # {}
    /\ session_state.order_items # <<>>
    /\ Click("clear_all_items", [order_items |-> session_state.order_items],
             clear_all_items(session_state.order_items))

\* A click on Place Order: what it leaves in the store, in the order in
\* progress and in `last`.
Placed(args, failAt, placed) ==
    /\ db' = placed.out.db
    /\ order_seq' = placed.out.seq
    /\ session_state' =
          [session_state EXCEPT !.order_items = placed.order_items]
    /\ clicks' = clicks + 1
    /\ last' = [op |-> "place_order", args |-> args, failAt |-> failAt,
                res |-> placed.out.res, connects |-> placed.out.connects,
                statements |-> placed.out.statements,
                calls |-> placed.out.calls, errors |-> placed.out.errors,
                checks |-> placed.out.checks, pre |-> db,
                called |-> placed.called]
    /\ UNCHANGED <<customer_seq, now, sessions>>

\* Place Order, shown with the lines, for the customer, payment method
\* and channel selected and the shipping address typed, if any.
PlaceOrder ==
    /\ last = NoCall
    /\ clicks < MaxClicks
    /\ order_seq < MaxOrders
    /\ session_state.order_items # <<>>
    /\ \E c \in Rows(get_customers(db, 0)),
          pm \in Rows(get_payment_methods(db, 0)),
          ch \in Rows(get_channels(db, 0)),
          shipping_address \in {<<>>, Address},
          failAt \in 0..(3 + Len(session_state.order_items)) :
          /\ shipping_address = <<>> => failAt = 0
          /\ Placed([customer_id |-> c.customer_id,
                     total_amount |-> cart_total(session_state.order_items),
                     shipping_address |-> shipping_address,
                     items |-> session_state.order_items],
                    failAt,
                    place_order(db, order_seq, now, c.customer_id,
                                pm.payment_method_id, ch.channel_id,
                                shipping_address, session_state.order_items,
                                failAt))

NextCart ==
    \/ AddToOrder
    \/ RemoveItem
    \/ ClearAllItems
    \/ PlaceOrder
    \/ Render

SpecCart == InitCart /\ [][NextCart]_vars

(***************************************************************************)
(* The reports.  The read operations are functions of the committed rows:  *)
(* they are run on every store of a bounded family, as order creation and  *)
(* the passing of time can leave it: orders numbered in the order created, *)
(* with order dates that never decrease, each of the seeded customer.      *)
(***************************************************************************)
StoredOrder(order_id, t) ==
    [order_id |-> order_id, customer_id |-> 1, payment_method_id |-> 1,
     channel_id |-> 1, total_amount |-> NumV(100 * order_id),
     shipping_address |-> Address] @@ order_defaults(t)

OrderTables ==
    UNION {{{StoredOrder(i, dates[i]) : i \in 1..k} :
               dates \in {f \in [1..k -> 0..MaxReportTime] :
                             \A i, j \in 1..k : i <= j => f[i] <= f[j]}} :
           k \in 0..MaxReportOrders}

StoredItem ==
    [order_id |-> 1, product_name |-> "Pen", quantity |-> IntV(2),
     unit_price |-> NumV(250), subtotal |-> NumV(500)]

ReadStores ==
    {d \in [customers : {{}, {SeedCustomer}},
            orders : OrderTables,
            order_items : {<<>>, <<StoredItem>>},
            products : {{}, {SeedProduct}},
            product_categories : {{}, {SeedCategory}},
            payment_methods : {{SeedPaymentMethod}},
            channels : {{SeedChannel}}] :
        /\ d.orders # {} => d.customers # {}
        /\ d.order_items # <<>> => d.orders # {}
        /\ d.products # {} => d.product_categories # {}}

InitRead ==
    /\ db \in ReadStores
    /\ order_seq = Cardinality(db.orders)
    /\ customer_seq = Cardinality(db.customers)
    /\ now = MaxReportTime
    /\ last = NoCall
    /\ sessions = <<>>
    /\ session_state = [order_items |-> <<>>]
    /\ clicks = 0

\* A call of a read operation: nothing but `last` changes.
Read(op, args, failAt, out) ==
    /\ Call(op, args, failAt, out)
    /\ UNCHANGED <<order_seq, customer_seq, now>>

Limits == 1..MaxLimit

GetPaymentMethods ==
    /\ last = NoCall
    /\ \E failAt \in 0..2 :
           Read("get_payment_methods", <<>>, failAt, get_payment_methods(db, failAt))

GetChannels ==
    /\ last = NoCall
    /\ \E failAt \in 0..2 :
           Read("get_channels", <<>>, failAt, get_channels(db, failAt))

GetCustomers ==
    /\ last = NoCall
    /\ \E failAt \in 0..2 :
           Read("get_customers", <<>>, failAt, get_customers(db, failAt))

GetProductCategories ==
    /\ last = NoCall
    /\ \E failAt \in 0..2 :
           Read("get_product_categories", <<>>, failAt,
                get_product_categories(db, failAt))

GetProductsByCategory ==
    /\ last = NoCall
    /\ \E category_id \in 1..2, failAt \in 0..2 :
           Read("get_products_by_category", [category_id |-> category_id], failAt,
                get_products_by_category(db, category_id, failAt))

GetProductDetails ==
    /\ last = NoCall
    /\ \E product_id \in 1..2, failAt \in 0..2 :
           Read("get_product_details", [product_id |-> product_id], failAt,
                get_product_details(db, product_id, failAt))

GetOrderDetails ==
    /\ last = NoCall
    /\ \E order_id \in 1..2, failAt \in 0..3 :
           Read("get_order_details", [order_id |-> order_id], failAt,
                get_order_details(db, order_id, failAt))

GetAllOrders ==
    /\ last = NoCall
    /\ \E failAt \in 0..2 :
           Read("get_all_orders", <<>>, failAt, get_all_orders(db, failAt))

GetRevenueByDay ==
    /\ last = NoCall
    /\ \E limit \in Limits, failAt \in 0..3 :
       \E latest \in Latest(db.orders, "order_date", limit) :
           Read("get_revenue_by_day", [limit |-> limit, latest |-> latest], failAt,
                get_revenue_by_day(db, limit, latest, failAt))

GetOrdersByDay ==
    /\ last = NoCall
    /\ \E limit \in Limits, failAt \in 0..2 :
       \E latest \in Latest(db.orders, "order_date", limit) :
           Read("get_orders_by_day", [limit |-> limit, latest |-> latest], failAt,
                get_orders_by_day(db, limit, latest, failAt))

GetLatestOrdersTable ==
    /\ last = NoCall
    /\ \E limit \in Limits, failAt \in 0..2 :
       \E latest \in Latest(latest_orders_rows(db), "order_date", limit) :
           Read("get_latest_orders_table", [limit |-> limit, latest |-> latest],
                failAt, get_latest_orders_table(db, limit, latest, failAt))

NextRead ==
    \/ GetPaymentMethods \/ GetChannels \/ GetCustomers
    \/ GetProductCategories \/ GetProductsByCategory \/ GetProductDetails
    \/ GetOrderDetails \/ GetAllOrders
    \/ GetRevenueByDay \/ GetOrdersByDay \/ GetLatestOrdersTable
    \/ Render

SpecRead == InitRead /\ [][NextRead]_vars

(***************************************************************************)
(* Two calls of update_order_status at once, each on a connection of its   *)
(* own, step by step: the connection, the SELECT, the UPDATE, the commit.  *)
(* The store runs the transactions of psycopg2 connections as PostgreSQL   *)
(* does by default (READ COMMITTED): a SELECT reads committed rows, an     *)
(* UPDATE locks the row until its transaction ends and waits while         *)
(* another transaction holds that lock, then updates the row as last       *)
(* committed.                                                              *)
(***************************************************************************)
Callers == {"A", "B"}

Idle ==
    [pc |-> "idle", args |-> <<>>, read |-> <<>>, txn |-> <<>>,
     res |-> Ret(TRUE, ""), applied |-> 0]

InitConcurrent ==
    /\ db = [customers |-> {SeedCustomer}, orders |-> {StoredOrder(1, 0)},
             order_items |-> <<>>, products |-> {SeedProduct},
             product_categories |-> {SeedCategory},
             payment_methods |-> {SeedPaymentMethod},
             channels |-> {SeedChannel}]
    /\ order_seq = 1
    /\ customer_seq = 1
    /\ now = 0
    /\ last = NoCall
    /\ sessions = [c \in Callers |-> Idle]
    /\ session_state = [order_items |-> <<>>]
    /\ clicks = 0

\* Another transaction holds the lock of the row: it has updated it and
\* has not committed yet.
row_locked(c, order_id) ==
    \E other \in Callers \ {c} :
        /\ sessions[other].pc = "updated"
        /\ sessions[other].args.order_id = order_id

\* The UPDATE is refused when the row is no longer the row the SELECT read.
write_conflict_if_changed(read, current) == read # current

\* UPDATE orders SET ... WHERE order_id = %s names no column but the key:
\* the row is updated whatever it has become since the SELECT.
write_conflict(read, current) == FALSE

\* The call returns res.
Return(c, res) ==
    sessions' = [sessions EXCEPT ![c].pc = "returned", ![c].res = res]

\* conn = get_db_connection(); cursor = conn.cursor()
Connect(c) ==
    /\ sessions[c].pc = "idle"
    /\ \E new_status \in Statuses, ship_date \in {NoneDate, Dt(0)} :
          sessions' = [sessions EXCEPT
                          ![c].pc = "connected",
                          ![c].args = [order_id |-> 1, new_status |-> new_status,
                                       ship_date |-> ship_date]]
    /\ UNCHANGED <<db, order_seq, customer_seq, now, last, session_state, clicks>>

\* The SELECT of the order, the not-found exit and the ship date check.
SelectOrder(c) ==
    /\ sessions[c].pc = "connected"
    /\ LET args == sessions[c].args
           result == select_order(db, args.order_id)
           row == CHOOSE o \in result : TRUE
           v == validate_ship_date(row.order_date, args.ship_date)
       IN  IF result = {} THEN Return(c, Ret(FALSE, "Order not found"))
           ELSE IF truthy(args.ship_date) /\ ~v.ok THEN Return(c, Ret(FALSE, v.msg))
           ELSE sessions' = [sessions EXCEPT ![c].pc = "selected",
                                             ![c].read = row]
    /\ UNCHANGED <<db, order_seq, customer_seq, now, last, session_state, clicks>>

\* The UPDATE, once the row is free: it works on the row as committed.
UpdateOrder(c) ==
    /\ sessions[c].pc = "selected"
    /\ ~row_locked(c, sessions[c].args.order_id)
    /\ LET args == sessions[c].args
           current == CHOOSE o \in select_order(db, args.order_id) : TRUE
       IN  IF write_conflict(sessions[c].read, current)
           THEN Return(c, Ret(FALSE, "Error updating order: " \o DriverError))
           ELSE sessions' =
                    [sessions EXCEPT
                        ![c].pc = "updated",
                        ![c].txn = [db EXCEPT !.orders =
                                       (@ \ {current}) \cup
                                       {update_order(current, args.new_status,
                                                     args.ship_date)}],
                        ![c].applied =
                            1 + Cardinality({o \in Callers :
                                                sessions[o].applied > 0})]
    /\ UNCHANGED <<db, order_seq, customer_seq, now, last, session_state, clicks>>

\* conn.commit(), the closes and the return of success.
Commit(c) ==
    /\ sessions[c].pc = "updated"
    /\ db' = commit(db, sessions[c].txn)
    /\ Return(c, Ret(TRUE, "Order #" \o ToString(sessions[c].args.order_id)
                            \o " updated to '" \o sessions[c].args.new_status
                            \o "'"))
    /\ UNCHANGED <<order_seq, customer_seq, now, last, session_state, clicks>>

Step(c) == SelectOrder(c) \/ UpdateOrder(c) \/ Commit(c)

NextConcurrent ==
    \E c \in Callers : Connect(c) \/ SelectOrder(c) \/ UpdateOrder(c) \/ Commit(c)

\* A call that has its connection runs on: nothing in it waits for a user,
\* and the store grants a free row lock to the transaction asking for it.
SpecConcurrent ==
    /\ InitConcurrent
    /\ [][NextConcurrent]_vars
    /\ \A c \in Callers : WF_vars(Step(c))


(***************************************************************************)
(* Properties.                                                             *)
(***************************************************************************)
Returned(ok) == last.res.kind = "return" /\ last.res.ok = ok

\* The rows the last call added to the store.
NewOrders == db.orders \ last.pre.orders

NewItems ==
    SubSeq(db.order_items, Len(last.pre.order_items) + 1, Len(db.order_items))

\* C1: create_order is all-or-nothing.  After a call that did not return
\* success (an invalid item at any position, a storage error on the header
\* insert, an item insert or the commit) the committed store is the store
\* before the call; after a call that returned success the store holds the
\* rows it held before, one new order header and, in the order supplied,
\* one new order item per supplied item, all of that order.
C1_AllOrNothing ==
    last.op = "create_order" =>
        IF Returned(TRUE)
        THEN /\ last.pre.orders \subseteq db.orders
             /\ Cardinality(NewOrders) = 1
             /\ db.customers = last.pre.customers
             /\ SubSeq(db.order_items, 1, Len(last.pre.order_items))
                    = last.pre.order_items
             /\ Len(NewItems) = Len(last.args.items)
             /\ \A i \in 1..Len(NewItems) :
                    /\ \A o \in NewOrders : NewItems[i].order_id = o.order_id
                    /\ NewItems[i].product_name = last.args.items[i].product_name
                    /\ NewItems[i].quantity = last.args.items[i].quantity
                    /\ NewItems[i].unit_price = last.args.items[i].unit_price
        ELSE db = last.pre

\* A call that failed on its second item, after the header and the first
\* item had been inserted, and left nothing behind.
C1_Witness ==
    /\ last.op = "create_order"
    /\ Returned(FALSE)
    /\ last.failAt = 0
    /\ last.statements = 2
    /\ Len(last.args.items) = 2
    /\ last.res.msg = "Error creating order: Quantity must be greater than 0"
    /\ db = last.pre

\* C2: every order whose ship date is present has a ship date that is not
\* earlier than its order date (and a stored ship date is a date).
C2_ShipDateNotBeforeOrderDate ==
    \A o \in db.orders :
        o.ship_date.tag # "none" =>
            o.ship_date.tag = "dt" /\ o.ship_date.t >= o.order_date

\* An order created after time had passed, shipped on its order date.
C2_Witness ==
    \E o \in db.orders :
        o.order_date > 0 /\ o.ship_date = Dt(o.order_date)

\* The last call was update_order_status on an existing order with a ship
\* date earlier than the order date the store held for it.
EarlyShipDate ==
    /\ last.op = "update_order_status"
    /\ last.args.ship_date.tag = "dt"
    /\ \E o \in last.pre.orders :
            /\ o.order_id = last.args.order_id
            /\ last.args.ship_date.t < o.order_date

\* C3: update_order_status with a ship date earlier than the stored order
\* date leaves every row as it was and, when the store was reached and the
\* order read, returns the ship-date rejection.
C3_EarlyShipDateRejected ==
    EarlyShipDate =>
        /\ db = last.pre
        /\ last.failAt \notin {1, 2} =>
                last.res = Ret(FALSE, "Ship date cannot be before order date")

C3_Witness ==
    /\ EarlyShipDate
    /\ last.failAt = 0
    /\ last.args.new_status = "Shipped"
    /\ last.res = Ret(FALSE, "Ship date cannot be before order date")

\* The last call was update_order_status with an order_id no order has.
NoSuchOrder ==
    /\ last.op = "update_order_status"
    /\ \A o \in last.pre.orders : o.order_id # last.args.order_id

\* C4: update_order_status with an order_id for which no order exists
\* changes nothing in the store and, when the store was reached and the
\* read done, returns "Order not found", whatever the status and ship date.
C4_OrderNotFound ==
    NoSuchOrder =>
        /\ db = last.pre
        /\ last.failAt \notin {1, 2} => last.res = Ret(FALSE, "Order not found")

\* Another order exists, and the call asks to ship the missing one.
C4_Witness ==
    /\ NoSuchOrder
    /\ last.pre.orders # {}
    /\ last.failAt = 0
    /\ last.args.new_status = "Shipped"
    /\ last.args.ship_date.tag = "dt"
    /\ last.res = Ret(FALSE, "Order not found")

\* C8: the order a successful create_order committed carries exactly the
\* total_amount the caller supplied, whatever the items are.
C8_TotalAsSupplied ==
    last.op = "create_order" /\ Returned(TRUE) =>
        /\ NewOrders # {}
        /\ \A o \in NewOrders : o.total_amount = last.args.total_amount

\* An order committed with a total that is not the sum of its subtotals.
C8_Witness ==
    /\ last.op = "create_order"
    /\ Returned(TRUE)
    /\ last.args.total_amount = NumV(0)
    /\ sum_subtotals(last.args.items) = 500
    /\ \E o \in NewOrders : o.total_amount = NumV(0)

InRange(amount) == amount.tag = "num" /\ amount.v >= 0 /\ amount.v <= MaxAmount

\* C10: every committed order item has an integer quantity in [1, 1000]
\* and a unit price in [0, 999999.99], and every committed order has a
\* total amount in [0, 999999.99].
C10_CommittedValuesInRange ==
    /\ \A i \in 1..Len(db.order_items) :
            /\ db.order_items[i].quantity.tag = "int"
            /\ db.order_items[i].quantity.v >= 1
            /\ db.order_items[i].quantity.v <= MaxQuantity
            /\ InRange(db.order_items[i].unit_price)
    /\ \A o \in db.orders : InRange(o.total_amount)


(***************************************************************************)
(* Customer registration.  A field is valid when the checks of its         *)
(* validator accept it: the length checks and the pattern.                 *)
(***************************************************************************)
accepts_name(name) ==
    /\ Len(strip(name)) >= MinNameLen
    /\ Len(name) <= MaxNameLen
    /\ name_pattern(name)

accepts_postal_code(postal_code) ==
    /\ Len(strip(postal_code)) >= MinPostalLen
    /\ Len(postal_code) <= MaxPostalLen
    /\ postal_pattern(strip(postal_code))

\* The fields of a call that are not valid, numbered in the order
\* first name, last name, email, phone, postal code.
InvalidFields(args) ==
    {i \in 1..5 :
        \/ i = 1 /\ ~accepts_name(args.first_name)
        \/ i = 2 /\ ~accepts_name(args.last_name)
        \/ i = 3 /\ ~email_pattern(args.email)
        \/ i = 4 /\ ~phone_pattern(clean_phone(args.phone))
        \/ i = 5 /\ ~accepts_postal_code(args.postal_code)}

NameReasons(field_name) ==
    {field_name \o " must be at least 2 characters",
     field_name \o " cannot exceed 50 characters",
     field_name \o " can only contain letters (Khmer or English), spaces, hyphens, and apostrophes"}

\* The reasons the validator of field i can give.
Reasons(i) ==
    CASE i = 1 -> NameReasons("First name")
      [] i = 2 -> NameReasons("Last name")
      [] i = 3 -> {"Invalid email format"}
      [] i = 4 -> {"Invalid Cambodian phone number. Format: 0XX XXX XXX or +855 XX XXX XXX"}
      [] i = 5 -> {"Postal code must be at least 5 characters",
                   "Postal code cannot exceed 6 characters",
                   "Postal code must be 5-6 digits"}

\* C5: when a validator rejects in add_customer, or the total_amount
\* validator rejects in create_order, the call returns failure with a
\* validation reason and has neither asked for a database connection nor
\* issued a statement, whether or not the store can be reached.
C5_ValidationBeforeConnection ==
    /\ last.op = "add_customer" /\ InvalidFields(last.args) # {} =>
            /\ Returned(FALSE)
            /\ \E i \in InvalidFields(last.args) : last.res.msg \in Reasons(i)
            /\ last.connects = 0
            /\ last.statements = 0
    /\ last.op = "create_order" /\ ~validate_amount(last.args.total_amount).ok =>
            /\ last.res = Ret(FALSE, validate_amount(last.args.total_amount).msg)
            /\ last.connects = 0
            /\ last.statements = 0

\* C6: add_customer with one or more invalid fields returns failure with
\* a reason of the first invalid field in the order first name, last name,
\* email, phone, postal code.
C6_FirstInvalidFieldReported ==
    last.op = "add_customer" /\ InvalidFields(last.args) # {} =>
        /\ Returned(FALSE)
        /\ last.res.msg \in Reasons(Min(InvalidFields(last.args)))

\* C7: add_customer with valid fields and the email of a stored customer
\* returns the duplicate-email reason and adds no row (the store being
\* reachable), and no two stored customers share an email.
C7_DuplicateEmailReported ==
    /\ /\ last.op = "add_customer"
       /\ InvalidFields(last.args) = {}
       /\ last.failAt = 0
       /\ \E c \in last.pre.customers : c.email = last.args.email
       => /\ last.res = Ret(FALSE, "Email already exists in the system")
          /\ db = last.pre
    /\ \A c1, c2 \in db.customers : c1.email = c2.email => c1 = c2

(***************************************************************************)
(* Results, connections and reports.                                       *)
(***************************************************************************)
\* A returned pair of a success indicator and a message.
TwoPart(res) == res.kind = "return" /\ res.ok \in BOOLEAN

\* C11: every call of a public operation (add_customer, create_order,
\* update_order_status, the read operations), whatever its input and the
\* storage outcome, returns a two-part result (success indicator, message)
\* and lets no exception escape.
C11_UniformResult == last.op # "none" => TwoPart(last.res)

\* The read operations that return a collection of rows.
ListReads ==
    {"get_customers", "get_all_orders", "get_product_categories",
     "get_products_by_category", "get_revenue_by_day", "get_orders_by_day",
     "get_latest_orders_table"}

\* The store held no row for the last call to return.
NoMatchingRows ==
    CASE last.op = "get_customers" -> last.pre.customers = {}
      [] last.op = "get_all_orders" -> joined_orders(last.pre) = {}
      [] last.op = "get_product_categories" ->
            \A c \in last.pre.product_categories : ~c.is_active
      [] last.op = "get_products_by_category" ->
            \A p \in last.pre.products :
                ~(p.category_id = last.args.category_id /\ p.is_active)
      [] last.op \in {"get_revenue_by_day", "get_orders_by_day"} ->
            last.pre.orders = {}
      [] last.op = "get_latest_orders_table" ->
            latest_orders_rows(last.pre) = {}
      [] OTHER -> FALSE

\* C12: a read operation that returns a collection returns the empty
\* collection when the store is reachable and holds no matching rows, and
\* returns something other than the empty collection (a storage-error
\* result its caller can tell apart) when the store cannot be reached.
C12_EmptyIsNotUnreachable ==
    last.op \in ListReads =>
        /\ last.failAt = 0 /\ NoMatchingRows => last.res = List(<<>>)
        /\ last.failAt = 1 => last.res # List(<<>>)

\* The last call got a connection from get_db_connection.
Acquired == last.op # "none" /\ last.connects = 1 /\ last.failAt # 1

\* The last calls made on the connection were these.
EndsWith(calls, suffix) ==
    /\ Len(calls) >= Len(suffix)
    /\ SubSeq(calls, Len(calls) - Len(suffix) + 1, Len(calls)) = suffix

\* The last call did what it was asked to: a write returned success, a
\* read fetched its rows.
Succeeded ==
    IF last.res.kind \in {"return", "raise"} THEN Returned(TRUE)
    ELSE last.errors = <<>>

\* C13: an operation that acquired a connection has closed it when it
\* returns, on every exit path: after rollback when it failed, after
\* commit when it succeeded in writing (a read that succeeded has
\* nothing to commit and closes).
C13_ConnectionClosed ==
    Acquired =>
        /\ EndsWith(last.calls, <<"close">>)
        /\ ~Succeeded => EndsWith(last.calls, <<"rollback", "close">>)
        /\ Succeeded /\ last.res.kind = "return" =>
                EndsWith(last.calls, <<"commit", "close">>)

\* The day aggregate named op, run on a store holding the given orders
\* with no storage fault, when the database picks `latest` as the orders
\* of the window.
day_aggregate(op, orders, limit, latest) ==
    LET d == [last.pre EXCEPT !.orders = orders]
    IN  IF op = "get_revenue_by_day"
        THEN get_revenue_by_day(d, limit, latest, 0).res
        ELSE get_orders_by_day(d, limit, latest, 0).res

\* The results the day aggregate can return on these orders.
DayAggregates(op, orders, limit) ==
    {day_aggregate(op, orders, limit, latest) :
        latest \in Latest(orders, "order_date", limit)}

\* The value of the aggregate column of a row.
aggregate_of(op, row) ==
    IF op = "get_revenue_by_day" THEN row.revenue ELSE row.order_count

\* What the rows of one day aggregate to.
expected_of(op, orders) ==
    IF op = "get_revenue_by_day" THEN SUM(orders) ELSE Cardinality(orders)

\* res is the list, ascending by date, of one row per day of the orders
\* in `latest`, each aggregating the orders of its day.
AggregatesByDay(op, res, latest) ==
    /\ res.kind = "list"
    /\ \A i, j \in DOMAIN res.rows : i < j => res.rows[i].date < res.rows[j].date
    /\ {res.rows[i].date : i \in DOMAIN res.rows}
            = {DATE(o.order_date) : o \in latest}
    /\ \A i \in DOMAIN res.rows :
            aggregate_of(op, res.rows[i])
                = expected_of(op, {o \in latest :
                                      DATE(o.order_date) = res.rows[i].date})

\* An order that is not in the store yet, placed at instant t.
AnotherOrder(t) == StoredOrder(MaxReportOrders + 1, t)

\* C14: get_revenue_by_day(N) and get_orders_by_day(N), the store being
\* reachable, return in ascending date order one row per calendar day
\* that aggregates (sum of total_amount, respectively count) exactly the N
\* orders with the most recent order_date; an order older than all of
\* these N, once added, leaves the output as it was, and an order more
\* recent than every stored order, once added, is counted in the output.
C14_DayAggregatesOverLatest ==
    last.op \in {"get_revenue_by_day", "get_orders_by_day"} /\ last.failAt = 0 =>
        LET orders == last.pre.orders
            limit == last.args.limit
        IN  /\ AggregatesByDay(last.op, last.res, last.args.latest)
            /\ \A t \in 0..MaxReportTime :
                  /\ Cardinality(orders) >= limit
                  /\ \A o \in last.args.latest : t < o.order_date
                  => DayAggregates(last.op, orders \cup {AnotherOrder(t)}, limit)
                        = DayAggregates(last.op, orders, limit)
            /\ \A res \in DayAggregates(last.op,
                             orders \cup {AnotherOrder(MaxReportTime + 1)}, limit) :
                  /\ res.kind = "list"
                  /\ \E i \in DOMAIN res.rows :
                        res.rows[i].date = DATE(MaxReportTime + 1)

(***************************************************************************)
(* The status of orders.                                                   *)
(***************************************************************************)
\* C15: in every state reached by create_order and update_order_status
\* calls, the status of every order is one of Pending, Processing,
\* Shipped, Delivered, Cancelled.
C15_StatusInFixedSet == \A o \in db.orders : o.order_status \in Statuses


\* The last call was update_order_status on an existing order, with one of
\* the five statuses and no ship date, and no storage call raised.
StatusChangeAsked ==
    /\ last.op = "update_order_status"
    /\ last.failAt = 0
    /\ last.args.new_status \in Statuses
    /\ last.args.ship_date = NoneDate
    /\ \E o \in last.pre.orders : o.order_id = last.args.order_id

\* C16: update_order_status on an existing order, with no ship date,
\* accepts every pair (current status, new status) of the five statuses,
\* out of Delivered or Cancelled and onto the same status included: it
\* returns success and the stored status of that order is then the new
\* status, every other column and row being as before.
C16_AnyStatusFollowsAny ==
    StatusChangeAsked =>
        /\ Returned(TRUE)
        /\ \A o \in last.pre.orders :
              IF o.order_id = last.args.order_id
              THEN [o EXCEPT !.order_status = last.args.new_status] \in db.orders
              ELSE o \in db.orders
        /\ Cardinality(db.orders) = Cardinality(last.pre.orders)

\* A Delivered order set back to Pending.
C16_Witness ==
    /\ StatusChangeAsked
    /\ \E o \in last.pre.orders :
          o.order_id = last.args.order_id /\ o.order_status = "Delivered"
    /\ last.args.new_status = "Pending"
    /\ Returned(TRUE)
    /\ \E o \in db.orders :
          o.order_id = last.args.order_id /\ o.order_status = "Pending"


(***************************************************************************)
(* What order creation leaves alone.                                       *)
(***************************************************************************)
\* C17: create_order, whether it succeeds or fails, leaves the stock
\* quantity of every product as it was, and the customers, categories,
\* payment methods and channels too; the only rows it can add are one
\* order header and order items of that order.
C17_OrderCreationKeepsStock ==
    last.op = "create_order" =>
        /\ db.products = last.pre.products
        /\ db.customers = last.pre.customers
        /\ db.product_categories = last.pre.product_categories
        /\ db.payment_methods = last.pre.payment_methods
        /\ db.channels = last.pre.channels
        /\ last.pre.orders \subseteq db.orders
        /\ Cardinality(NewOrders) <= 1
        /\ Len(db.order_items) >= Len(last.pre.order_items)
        /\ SubSeq(db.order_items, 1, Len(last.pre.order_items))
                = last.pre.order_items
        /\ \A i \in 1..Len(NewItems) :
                \E o \in NewOrders : NewItems[i].order_id = o.order_id

\* An order committed for more pens than are in stock, and the stock of
\* pens is what it was.
C17_Witness ==
    /\ last.op = "create_order"
    /\ Returned(TRUE)
    /\ \E i \in 1..Len(NewItems), p \in db.products :
          /\ NewItems[i].product_name = p.product_name
          /\ NewItems[i].quantity.v > p.stock_quantity
          /\ p \in last.pre.products


(***************************************************************************)
(* Concurrent status updates.                                              *)
(***************************************************************************)
AllReturned == \A c \in Callers : sessions[c].pc = "returned"

\* The call whose UPDATE was applied last.
LastWriter ==
    CHOOSE c \in Callers : \A o \in Callers : sessions[o].applied <= sessions[c].applied

\* Neither call is rejected, and when both have returned the stored
\* status is the one the last UPDATE applied wrote.
LastWriteWins ==
    /\ \A c \in Callers : sessions[c].pc = "returned" => sessions[c].res.ok
    /\ AllReturned =>
          \A o \in db.orders :
              o.order_id = 1 => o.order_status = sessions[LastWriter].args.new_status

\* A call that has read the order finds the row free for its UPDATE.
NeverHeldUp ==
    \A c \in Callers :
        sessions[c].pc = "selected" => ~row_locked(c, sessions[c].args.order_id)

\* C18, as stated: two update_order_status calls run at once on the same
\* existing order, their read, update and commit steps interleaved in any
\* order: neither call is rejected or blocked because of the other, and
\* the status stored in the end is the one written by the call whose
\* update was applied last.
C18_NeitherRejectedNorBlocked ==
    sessions # <<>> => LastWriteWins /\ NeverHeldUp

\* C18, amended: two update_order_status calls run at once on the same
\* existing order: neither is rejected because of the other; the UPDATE
\* of one waits while the other has updated the row and not committed
\* yet, but never for ever, so that each call returns; and the status
\* stored in the end is the one written by the call whose UPDATE was
\* applied last.
C18_LastWriteWins ==
    /\ [](sessions # <<>> => LastWriteWins)
    /\ \A c \in Callers :
          (sessions # <<>> /\ sessions[c].pc = "connected")
              ~> (sessions[c].pc = "returned")

\* Both calls read the order before either updated it, they asked for
\* different statuses, and the status of the second UPDATE is the one
\* stored.
C18_Witness ==
    /\ sessions # <<>>
    /\ AllReturned
    /\ sessions["A"].read = sessions["B"].read
    /\ sessions["A"].args.new_status = "Cancelled"
    /\ sessions["B"].args.new_status = "Shipped"
    /\ sessions["A"].applied = 2
    /\ \E o \in db.orders : o.order_id = 1 /\ o.order_status = "Cancelled"


(***************************************************************************)
(* Registration.                                                           *)
(***************************************************************************)
\* The last submit of the form had a field that is empty once trimmed.
FieldMissing ==
    /\ last.op = "add_customer_page"
    /\ \E k \in DOMAIN last.args : strip(last.args[k]) = <<>>

\* C19: customer registration rejects whenever any of the seven fields
\* (first name, last name, email, phone, address, city, postal code) is
\* empty after trimming, before any field-format validator runs (they run
\* in add_customer, which is not called) and before any storage access;
\* and no stored customer has an empty address or city.
C19_MissingFieldRejected ==
    /\ FieldMissing =>
          /\ ~last.called
          /\ last.connects = 0
          /\ last.statements = 0
          /\ db = last.pre
          /\ \E k \in DOMAIN last.args :
                /\ strip(last.args[k]) = <<>>
                /\ last.errors = <<FieldLabel[k] \o " is required">>
    /\ \A c \in db.customers : strip(c.address) # <<>> /\ strip(c.city) # <<>>

\* A form with every field filled but the address, which holds blanks.
C19_Witness ==
    /\ FieldMissing
    /\ \A k \in DOMAIN last.args : strip(last.args[k]) = <<>> <=> k = "address"
    /\ last.args.address # <<>>
    /\ last.errors = <<"Address is required">>
    /\ ~last.called


(***************************************************************************)
(* Field formats.                                                          *)
(***************************************************************************)
HasDigit(s) == \E i \in 1..Len(s) : s[i] \in Digits

\* C20: validate_name accepts a name exactly when its trimmed length is
\* between 2 and 50 and it holds no digit, and it rejects (returns
\* failure for) every name that holds a digit.
C20_NameAccepted ==
    last.op = "validate_name" =>
        LET name == last.args.name IN
        /\ last.res = Valid <=>
              /\ Len(strip(name)) >= MinNameLen
              /\ Len(strip(name)) <= MaxNameLen
              /\ ~HasDigit(name)
        /\ HasDigit(name) => last.res.kind = "return" /\ ~last.res.ok


\* C21: validate_postal_code accepts a value exactly when, trimmed of the
\* whitespace around it, it has length 5 or 6 and holds digits only:
\* "12345" and "120101" are accepted, "1234" and "abcde" rejected.
C21_PostalCodeAccepted ==
    last.op = "validate_postal_code" =>
        LET postal_code == last.args.postal_code IN
        /\ last.res = Valid <=>
              /\ Len(strip(postal_code)) \in MinPostalLen..MaxPostalLen
              /\ AllIn(strip(postal_code), Digits)
        /\ last.res # Valid => last.res.kind = "return" /\ ~last.res.ok


(***************************************************************************)
(* The order of the item checks.                                           *)
(***************************************************************************)
\* The reason a validator gives against an item, "" when none does: that
\* of validate_quantity if it rejects the quantity, else that of
\* validate_amount if it rejects the unit price.
ItemReason(item) ==
    IF ~validate_quantity(item.quantity).ok
    THEN validate_quantity(item.quantity).msg
    ELSE IF ~validate_amount(item.unit_price).ok
    THEN validate_amount(item.unit_price).msg
    ELSE ""

\* The positions of the items of the last call a validator rejects.
InvalidItems ==
    {i \in DOMAIN last.args.items : ItemReason(last.args.items[i]) # ""}

\* The checks of the first n items, each item's quantity before its unit
\* price, item after item.
ChecksInOrder(n) ==
    [k \in 1..(2 * n) |->
        [item |-> (k + 1) \div 2,
         field |-> IF k % 2 = 1 THEN "quantity" ELSE "unit_price"]]

\* The last call was create_order with an item a validator rejects, a
\* total it accepts, and no storage error before the loop came to the
\* first such item.
InvalidItemReached ==
    /\ last.op = "create_order"
    /\ InvalidItems # {}
    /\ validate_amount(last.args.total_amount).ok
    /\ last.failAt = 0 \/ last.failAt > Min(InvalidItems) + 1

\* C22: create_order takes the items in the order of the list and checks
\* the quantity of an item before its unit price.  When the list has an
\* invalid item, it returns the rejection reason of the first one (that of
\* the quantity when quantity and unit price are both invalid), and no
\* item after that one is validated or inserted: the checks stop at the
\* failing one, the statements issued are the header INSERT and one INSERT
\* per item before it, and nothing of the call is left in the store.
C22_FirstInvalidItemReported ==
    /\ last.op = "create_order" =>
          /\ Len(last.checks) <= 2 * Len(last.args.items)
          /\ last.checks = SubSeq(ChecksInOrder(Len(last.args.items)), 1,
                                  Len(last.checks))
    /\ InvalidItemReached =>
          LET first == Min(InvalidItems)
              item == last.args.items[first]
          IN  /\ last.res = Ret(FALSE, "Error creating order: "
                                           \o ItemReason(item))
              /\ validate_quantity(item.quantity).ok
                    => Len(last.checks) = 2 * first
              /\ ~validate_quantity(item.quantity).ok
                    => /\ Len(last.checks) = 2 * first - 1
                       /\ last.res.msg = "Error creating order: "
                              \o validate_quantity(item.quantity).msg
              /\ last.statements = first
              /\ db = last.pre

\* A valid item, then one invalid in its quantity and its unit price, then
\* one invalid for other reasons: the reason returned is that of the
\* second item's quantity, after three checks and two statements.
C22_Witness ==
    /\ InvalidItemReached
    /\ last.failAt = 0
    /\ last.args.items =
          <<Item(IntV(2), NumV(250)), Item(IntV(0), NumV(-1)),
            Item(IntV(MaxQuantity + 1), NumV(MaxAmount + 1))>>
    /\ last.res = Ret(FALSE, "Error creating order: Quantity must be greater than 0")
    /\ Len(last.checks) = 3
    /\ last.statements = 2


(***************************************************************************)
(* Ship date and status.                                                   *)
(***************************************************************************)
\* C23: in every state reached by update_order_status calls that give a
\* ship date only together with a new status of Shipped or Delivered, as
\* the manage-orders page does, an order that has a ship date has the
\* status Shipped or Delivered.
C23_ShipDateOnlyWhenShipped ==
    \A o \in db.orders :
        truthy(o.ship_date) => o.order_status \in {"Shipped", "Delivered"}


(***************************************************************************)
(* The order in progress.                                                  *)
(***************************************************************************)
\* The product names of the lines are pairwise distinct.
DistinctNames(order_items) ==
    \A i, j \in DOMAIN order_items :
        order_items[i].product_name = order_items[j].product_name => i = j

\* C24: after any sequence of Add to Order, remove and Clear All clicks
\* the lines of the order in progress have pairwise distinct product
\* names.  Adding a product that has a line already adds the quantity to
\* that line, which keeps its place, the other lines and the number of
\* lines being as before; adding another product appends a line for it.
C24_DistinctProductNames ==
    /\ DistinctNames(session_state.order_items)
    /\ last.op = "add_to_order" =>
          LET before == last.args.order_items
              after == session_state.order_items
              name == last.args.product_info.name
              held == {i \in DOMAIN before : before[i].product_name = name}
          IN  IF held # {}
              THEN /\ Len(after) = Len(before)
                   /\ \A i \in DOMAIN before :
                         after[i] =
                             IF i \in held
                             THEN [before[i] EXCEPT
                                      !.quantity =
                                          IntV(@.v + last.args.quantity)]
                             ELSE before[i]
              ELSE after =
                      Append(before,
                             [product_name |-> name,
                              quantity |-> IntV(last.args.quantity),
                              unit_price |-> last.args.product_info.price])

\* Pens, then ink, then pens again: the first of two lines gets the
\* quantity added and stays first.
C24_Witness ==
    /\ last.op = "add_to_order"
    /\ Len(last.args.order_items) = 2
    /\ last.args.order_items[1].product_name = "Pen"
    /\ last.args.order_items[2].product_name = "Ink"
    /\ last.args.product_info.name = "Pen"
    /\ Len(session_state.order_items) = 2
    /\ session_state.order_items[1].product_name = "Pen"
    /\ session_state.order_items[1].quantity.v =
          last.args.order_items[1].quantity.v + last.args.quantity


\* The reasons validate_quantity gives against a quantity.
QuantityReasons ==
    {"Quantity must be a number", "Quantity must be greater than 0",
     "Quantity cannot exceed 1000"}

\* create_order was called by the last click and turned the order down
\* for the quantity of a line.
RejectedForQuantity ==
    /\ last.op = "place_order"
    /\ last.called
    /\ \E reason \in QuantityReasons :
          last.res = Ret(FALSE, "Error creating order: " \o reason)

\* C25: after any sequence of Add to Order clicks the quantity of every
\* line of the order in progress is at most the stock of its product and
\* at most 1000, so that create_order never turns down for its quantity
\* check an order built on the order page.
C25_QuantityWithinStock ==
    /\ \A i \in DOMAIN session_state.order_items :
          LET line == session_state.order_items[i] IN
          /\ line.quantity.v <= MaxQuantity
          /\ \A p \in db.products :
                p.product_name = line.product_name
                    => line.quantity.v <= p.stock_quantity
    /\ ~RejectedForQuantity


\* The last click was Place Order and create_order committed the order.
OrderPlaced ==
    /\ last.op = "place_order"
    /\ last.called
    /\ Returned(TRUE)

\* C26: every order committed through Place Order has at least one order
\* item, one per line of the order in progress and equal to it in product
\* name, quantity and unit price, and a stored total equal to the sum of
\* quantity x unit price over those lines as they were at the click.
\* After a success the order in progress has no lines; after a failure
\* (no shipping address, or create_order returning failure) it has the
\* lines it had and the store is as it was, so that the order can be
\* placed again.
C26_PlacedOrderMatchesCart ==
    /\ \A o \in db.orders :
          \E i \in DOMAIN db.order_items :
              db.order_items[i].order_id = o.order_id
    /\ last.op = "place_order" =>
          IF OrderPlaced
          THEN /\ Cardinality(NewOrders) = 1
               /\ \A o \in NewOrders :
                     /\ o.total_amount =
                            NumV(sum_subtotals(last.args.items))
                     /\ \A i \in DOMAIN NewItems :
                            NewItems[i].order_id = o.order_id
               /\ Len(NewItems) >= 1
               /\ Len(NewItems) = Len(last.args.items)
               /\ \A i \in DOMAIN NewItems :
                     /\ NewItems[i].product_name
                            = last.args.items[i].product_name
                     /\ NewItems[i].quantity = last.args.items[i].quantity
                     /\ NewItems[i].unit_price
                            = last.args.items[i].unit_price
               /\ session_state.order_items = <<>>
          ELSE /\ db = last.pre
               /\ session_state.order_items = last.args.items
               /\ last.args.items # <<>>

\* An order of five pens and a thousand bottles of ink placed: the total
\* stored is 1012.50 and the order in progress is empty.
C26_Witness ==
    /\ OrderPlaced
    /\ Len(last.args.items) = 2
    /\ last.args.items[1].quantity = IntV(5)
    /\ last.args.items[2].quantity = IntV(1000)
    /\ \E o \in NewOrders : o.total_amount = NumV(5 * 250 + 1000 * 100)
    /\ Len(NewItems) = 2
    /\ session_state.order_items = <<>>

=============================================================================
